---------------------------- MODULE Spec2Model ----------------------------
(***************************************************************************)
(* A model of the xarray tutorial repository: the two teaching notebooks   *)
(* run cell by cell in a Jupyter kernel, the container image that serves   *)
(* them, and the labelled-array operations the cells demonstrate.          *)
(*                                                                         *)
(* Five specifications share the module:                                   *)
(*   Spec       a kernel session that runs one notebook top to bottom      *)
(*   SpecImage  docker build of the Dockerfile, docker run, the Lab user   *)
(*   SpecIndex  sel and isel on a one-dimensional labelled array           *)
(*   SpecArgo   the cells that build the Argo Dataset and combine it       *)
(*   SpecSst    the groupby, resample, rolling and coarsen cells on the    *)
(*              sea-surface temperature Dataset                            *)
(***************************************************************************)
EXTENDS Integers, Sequences, FiniteSets

VARIABLES
    \* ---- kernel session (Spec)
    nb,         \* the notebook the kernel session runs
    pc,         \* index (1-based) of the next cell of the notebook to run
    ns,         \* the kernel's namespace: the names bound so far
    errors,     \* the exceptions raised so far: [cell, line, kind]
    dl,         \* the pooch.retrieve calls made so far
    corrupt,    \* names whose value derives from a corrupted download
    \* ---- image build and container (SpecImage)
    bpc,        \* index (1-based) of the next Dockerfile instruction to build
    img,        \* the image built so far
    ctr,        \* the container docker run started, and its Lab session
    runs,       \* the number of containers started so far
    \* ---- selection on a labelled array (SpecIndex)
    da,         \* the one-dimensional DataArray selected from
    out,        \* the last selection made and what it returned
    \* ---- the Argo Dataset cells (SpecArgo)
    npy,        \* the arrays loaded from the .npy files
    apc,        \* the notebook cell (its index) that runs next
    argo,       \* the Dataset
    sa_surf,    \* the salinity of the first 20 levels
    sa_mid,     \* the salinity of levels 10 to 29
    res,        \* the value of the last expression cell
    sa_surf_outer,  \* sa_surf aligned to the union of the levels
    sa_mid_outer,   \* sa_mid aligned to the union of the levels
    sa_surf_mid,    \* sa_surf and sa_mid concatenated along level
    \* ---- the sea-surface temperature cells (SpecSst)
    spc,        \* the notebook cell (its index) that runs next
    ds,         \* the sea-surface temperature Dataset
    gb,         \* the GroupBy object
    group_name, \* the loop variables of the cell that iterates the groups
    group_da,
    sst_mm,     \* the monthly climatology
    ds_anom,    \* the anomalies
    ds_anom_resample,   \* the five-year means of the anomalies
    ds_anom_rolling,    \* the 12-month rolling means of the anomalies
    shown,      \* the value of the expression that ends a cell, by cell
    plotted     \* the arrays a cell has plotted, by cell

nbvars == <<nb, pc, ns, errors, dl, corrupt>>
imgvars == <<bpc, img, ctr, runs>>
idxvars == <<da, out>>
combvars == <<sa_surf_outer, sa_mid_outer, sa_surf_mid>>
argovars == <<npy, apc, argo, sa_surf, sa_mid, res, sa_surf_outer, sa_mid_outer, sa_surf_mid>>
sstvars == <<spc, ds, gb, group_name, group_da, sst_mm, ds_anom, ds_anom_resample,
             ds_anom_rolling, shown, plotted>>
vars == <<nb, pc, ns, errors, dl, corrupt, bpc, img, ctr, runs, da, out,
          npy, apc, argo, sa_surf, sa_mid, res,
          sa_surf_outer, sa_mid_outer, sa_surf_mid,
          spc, ds, gb, group_name, group_da, sst_mm, ds_anom, ds_anom_resample,
          ds_anom_rolling, shown, plotted>>

(***************************************************************************)
(* The notebooks.  One record per cell, in file order; a code cell lists   *)
(* its top-level statements with the global names each one reads, the      *)
(* names it binds, and the library call the model follows (call, arg).     *)
(* line is the line of the statement in the .ipynb file.                   *)
(***************************************************************************)
xarray_fundamentals ==
  <<
    [idx |-> 0, type |-> "markdown", stmts |-> << >>],
    [idx |-> 1, type |-> "markdown", stmts |-> << >>],
    [idx |-> 2, type |-> "markdown", stmts |-> << >>],
    [idx |-> 3, type |-> "markdown", stmts |-> << >>],
    [idx |-> 4, type |-> "markdown", stmts |-> << >>],
    [idx |-> 5, type |-> "markdown", stmts |-> << >>],
    [idx |-> 6, type |-> "code", stmts |-> <<
        [line |-> 67, reads |-> {}, binds |-> {"np"}, call |-> "", arg |-> ""],
        [line |-> 68, reads |-> {}, binds |-> {"xr"}, call |-> "", arg |-> ""],
        [line |-> 69, reads |-> {}, binds |-> {"plt"}, call |-> "", arg |-> ""] >>],
    [idx |-> 7, type |-> "code", stmts |-> <<
        [line |-> 80, reads |-> {"xr"}, binds |-> {"da"}, call |-> "", arg |-> ""],
        [line |-> 81, reads |-> {"da"}, binds |-> {}, call |-> "", arg |-> ""] >>],
    [idx |-> 8, type |-> "markdown", stmts |-> << >>],
    [idx |-> 9, type |-> "code", stmts |-> <<
        [line |-> 99, reads |-> {"xr"}, binds |-> {"da"}, call |-> "", arg |-> ""],
        [line |-> 100, reads |-> {"da"}, binds |-> {}, call |-> "", arg |-> ""] >>],
    [idx |-> 10, type |-> "markdown", stmts |-> << >>],
    [idx |-> 11, type |-> "code", stmts |-> <<
        [line |-> 118, reads |-> {"xr"}, binds |-> {"da"}, call |-> "", arg |-> ""],
        [line |-> 121, reads |-> {"da"}, binds |-> {}, call |-> "", arg |-> ""] >>],
    [idx |-> 12, type |-> "markdown", stmts |-> << >>],
    [idx |-> 13, type |-> "code", stmts |-> <<
        [line |-> 140, reads |-> {"da"}, binds |-> {}, call |-> "", arg |-> ""] >>],
    [idx |-> 14, type |-> "markdown", stmts |-> << >>],
    [idx |-> 15, type |-> "code", stmts |-> <<
        [line |-> 158, reads |-> {"da"}, binds |-> {}, call |-> "", arg |-> ""] >>],
    [idx |-> 16, type |-> "markdown", stmts |-> << >>],
    [idx |-> 17, type |-> "markdown", stmts |-> << >>],
    [idx |-> 18, type |-> "markdown", stmts |-> << >>],
    [idx |-> 19, type |-> "markdown", stmts |-> << >>],
    [idx |-> 20, type |-> "markdown", stmts |-> << >>],
    [idx |-> 21, type |-> "markdown", stmts |-> << >>],
    [idx |-> 22, type |-> "markdown", stmts |-> << >>],
    [idx |-> 23, type |-> "code", stmts |-> <<
        [line |-> 226, reads |-> {}, binds |-> {"pooch"}, call |-> "", arg |-> ""],
        [line |-> 227, reads |-> {}, binds |-> {"url"}, call |-> "", arg |-> ""],
        [line |-> 228, reads |-> {"pooch", "url"}, binds |-> {"files"}, call |-> "retrieve", arg |-> "2a703c720302c682f1662181d329c9f22f9f10e1539dc2d6082160a469165009"],
        [line |-> 229, reads |-> {"files"}, binds |-> {}, call |-> "", arg |-> ""],
        [line |-> 230, reads |-> {"files"}, binds |-> {}, call |-> "", arg |-> ""] >>],
    [idx |-> 24, type |-> "markdown", stmts |-> << >>],
    [idx |-> 25, type |-> "code", stmts |-> <<
        [line |-> 250, reads |-> {"np", "files"}, binds |-> {"P"}, call |-> "", arg |-> ""],
        [line |-> 251, reads |-> {"np", "files"}, binds |-> {"S"}, call |-> "", arg |-> ""],
        [line |-> 252, reads |-> {"np", "files"}, binds |-> {"T"}, call |-> "", arg |-> ""],
        [line |-> 253, reads |-> {"np", "files"}, binds |-> {"date"}, call |-> "", arg |-> ""],
        [line |-> 254, reads |-> {"np", "files"}, binds |-> {"lat"}, call |-> "", arg |-> ""],
        [line |-> 255, reads |-> {"np", "files"}, binds |-> {"levels"}, call |-> "", arg |-> ""],
        [line |-> 256, reads |-> {"np", "files"}, binds |-> {"lon"}, call |-> "", arg |-> ""] >>],
    [idx |-> 26, type |-> "markdown", stmts |-> << >>],
    [idx |-> 27, type |-> "code", stmts |-> <<
        [line |-> 274, reads |-> {"print", "S"}, binds |-> {}, call |-> "", arg |-> ""],
        [line |-> 275, reads |-> {"print", "levels"}, binds |-> {}, call |-> "", arg |-> ""],
        [line |-> 276, reads |-> {"print", "date"}, binds |-> {}, call |-> "", arg |-> ""] >>],
    [idx |-> 28, type |-> "markdown", stmts |-> << >>],
    [idx |-> 29, type |-> "markdown", stmts |-> << >>],
    [idx |-> 30, type |-> "code", stmts |-> <<
        [line |-> 301, reads |-> {"xr", "S", "levels", "date"}, binds |-> {"da_salinity"}, call |-> "", arg |-> ""],
        [line |-> 304, reads |-> {"da_salinity"}, binds |-> {}, call |-> "", arg |-> ""] >>],
    [idx |-> 31, type |-> "code", stmts |-> <<
        [line |-> 315, reads |-> {"da_salinity"}, binds |-> {}, call |-> "", arg |-> ""] >>],
    [idx |-> 32, type |-> "markdown", stmts |-> << >>],
    [idx |-> 33, type |-> "code", stmts |-> <<
        [line |-> 333, reads |-> {"da_salinity"}, binds |-> {}, call |-> "", arg |-> ""] >>],
    [idx |-> 34, type |-> "markdown", stmts |-> << >>],
    [idx |-> 35, type |-> "code", stmts |-> <<
        [line |-> 351, reads |-> {"da_salinity"}, binds |-> {}, call |-> "", arg |-> ""],
        [line |-> 352, reads |-> {"da_salinity"}, binds |-> {}, call |-> "", arg |-> ""],
        [line |-> 353, reads |-> {"da_salinity"}, binds |-> {}, call |-> "", arg |-> ""] >>],
    [idx |-> 36, type |-> "markdown", stmts |-> << >>],
    [idx |-> 37, type |-> "code", stmts |-> <<
        [line |-> 371, reads |-> {"da_salinity"}, binds |-> {}, call |-> "", arg |-> ""] >>],
    [idx |-> 38, type |-> "markdown", stmts |-> << >>],
    [idx |-> 39, type |-> "markdown", stmts |-> << >>],
    [idx |-> 40, type |-> "code", stmts |-> <<
        [line |-> 412, reads |-> {"xr", "S", "T", "P", "levels", "date"}, binds |-> {"argo"}, call |-> "", arg |-> ""],
        [line |-> 423, reads |-> {"argo"}, binds |-> {}, call |-> "", arg |-> ""] >>],
    [idx |-> 41, type |-> "markdown", stmts |-> << >>],
    [idx |-> 42, type |-> "code", stmts |-> <<
        [line |-> 441, reads |-> {"argo", "lon"}, binds |-> {}, call |-> "", arg |-> ""],
        [line |-> 442, reads |-> {"argo"}, binds |-> {}, call |-> "", arg |-> ""] >>],
    [idx |-> 43, type |-> "markdown", stmts |-> << >>],
    [idx |-> 44, type |-> "code", stmts |-> <<
        [line |-> 460, reads |-> {"argo"}, binds |-> {}, call |-> "", arg |-> ""],
        [line |-> 461, reads |-> {"argo", "lon"}, binds |-> {}, call |-> "", arg |-> ""],
        [line |-> 462, reads |-> {"argo", "lat"}, binds |-> {}, call |-> "", arg |-> ""],
        [line |-> 463, reads |-> {"argo"}, binds |-> {}, call |-> "", arg |-> ""] >>],
    [idx |-> 45, type |-> "markdown", stmts |-> << >>],
    [idx |-> 46, type |-> "markdown", stmts |-> << >>],
    [idx |-> 47, type |-> "code", stmts |-> <<
        [line |-> 488, reads |-> {"argo"}, binds |-> {}, call |-> "", arg |-> ""] >>],
    [idx |-> 48, type |-> "markdown", stmts |-> << >>],
    [idx |-> 49, type |-> "markdown", stmts |-> << >>],
    [idx |-> 50, type |-> "markdown", stmts |-> << >>],
    [idx |-> 51, type |-> "code", stmts |-> <<
        [line |-> 522, reads |-> {"argo"}, binds |-> {}, call |-> "", arg |-> ""] >>],
    [idx |-> 52, type |-> "code", stmts |-> <<
        [line |-> 533, reads |-> {"argo"}, binds |-> {}, call |-> "", arg |-> ""] >>],
    [idx |-> 53, type |-> "code", stmts |-> <<
        [line |-> 544, reads |-> {"argo"}, binds |-> {}, call |-> "", arg |-> ""] >>],
    [idx |-> 54, type |-> "code", stmts |-> <<
        [line |-> 555, reads |-> {"argo"}, binds |-> {}, call |-> "", arg |-> ""] >>],
    [idx |-> 55, type |-> "code", stmts |-> <<
        [line |-> 566, reads |-> {"argo"}, binds |-> {}, call |-> "", arg |-> ""] >>],
    [idx |-> 56, type |-> "markdown", stmts |-> << >>],
    [idx |-> 57, type |-> "code", stmts |-> <<
        [line |-> 584, reads |-> {"argo"}, binds |-> {}, call |-> "", arg |-> ""] >>],
    [idx |-> 58, type |-> "code", stmts |-> <<
        [line |-> 595, reads |-> {"argo"}, binds |-> {}, call |-> "", arg |-> ""] >>],
    [idx |-> 59, type |-> "markdown", stmts |-> << >>],
    [idx |-> 60, type |-> "code", stmts |-> <<
        [line |-> 613, reads |-> {"argo"}, binds |-> {}, call |-> "", arg |-> ""] >>],
    [idx |-> 61, type |-> "code", stmts |-> <<
        [line |-> 624, reads |-> {"argo"}, binds |-> {}, call |-> "", arg |-> ""] >>],
    [idx |-> 62, type |-> "markdown", stmts |-> << >>],
    [idx |-> 63, type |-> "code", stmts |-> <<
        [line |-> 642, reads |-> {"argo"}, binds |-> {}, call |-> "", arg |-> ""] >>],
    [idx |-> 64, type |-> "markdown", stmts |-> << >>],
    [idx |-> 65, type |-> "code", stmts |-> <<
        [line |-> 660, reads |-> {"argo", "slice"}, binds |-> {}, call |-> "", arg |-> ""] >>],
    [idx |-> 66, type |-> "code", stmts |-> <<
        [line |-> 671, reads |-> {"argo", "slice"}, binds |-> {}, call |-> "", arg |-> ""] >>],
    [idx |-> 67, type |-> "markdown", stmts |-> << >>],
    [idx |-> 68, type |-> "code", stmts |-> <<
        [line |-> 689, reads |-> {"argo"}, binds |-> {}, call |-> "", arg |-> ""] >>],
    [idx |-> 69, type |-> "code", stmts |-> <<
        [line |-> 700, reads |-> {"argo"}, binds |-> {}, call |-> "", arg |-> ""] >>],
    [idx |-> 70, type |-> "markdown", stmts |-> << >>],
    [idx |-> 71, type |-> "markdown", stmts |-> << >>],
    [idx |-> 72, type |-> "code", stmts |-> <<
        [line |-> 727, reads |-> {"argo"}, binds |-> {"temp_kelvin"}, call |-> "", arg |-> ""],
        [line |-> 728, reads |-> {"temp_kelvin"}, binds |-> {}, call |-> "", arg |-> ""] >>],
    [idx |-> 73, type |-> "markdown", stmts |-> << >>],
    [idx |-> 74, type |-> "code", stmts |-> <<
        [line |-> 746, reads |-> {}, binds |-> {"g"}, call |-> "", arg |-> ""],
        [line |-> 747, reads |-> {"g", "argo"}, binds |-> {"buoyancy"}, call |-> "", arg |-> ""],
        [line |-> 748, reads |-> {"buoyancy"}, binds |-> {}, call |-> "", arg |-> ""] >>],
    [idx |-> 75, type |-> "markdown", stmts |-> << >>],
    [idx |-> 76, type |-> "markdown", stmts |-> << >>],
    [idx |-> 77, type |-> "markdown", stmts |-> << >>],
    [idx |-> 78, type |-> "code", stmts |-> <<
        [line |-> 782, reads |-> {"argo"}, binds |-> {}, call |-> "", arg |-> ""] >>],
    [idx |-> 79, type |-> "code", stmts |-> <<
        [line |-> 793, reads |-> {"argo"}, binds |-> {}, call |-> "", arg |-> ""] >>],
    [idx |-> 80, type |-> "code", stmts |-> <<
        [line |-> 804, reads |-> {"argo"}, binds |-> {"level_times_lat"}, call |-> "", arg |-> ""],
        [line |-> 805, reads |-> {"level_times_lat"}, binds |-> {}, call |-> "", arg |-> ""] >>],
    [idx |-> 81, type |-> "code", stmts |-> <<
        [line |-> 816, reads |-> {"level_times_lat"}, binds |-> {}, call |-> "", arg |-> ""] >>],
    [idx |-> 82, type |-> "markdown", stmts |-> << >>],
    [idx |-> 83, type |-> "markdown", stmts |-> << >>],
    [idx |-> 84, type |-> "code", stmts |-> <<
        [line |-> 844, reads |-> {"argo", "slice"}, binds |-> {"sa_surf"}, call |-> "", arg |-> ""],
        [line |-> 845, reads |-> {"argo", "slice"}, binds |-> {"sa_mid"}, call |-> "", arg |-> ""] >>],
    [idx |-> 85, type |-> "markdown", stmts |-> << >>],
    [idx |-> 86, type |-> "code", stmts |-> <<
        [line |-> 863, reads |-> {"sa_surf", "sa_mid"}, binds |-> {}, call |-> "", arg |-> ""] >>],
    [idx |-> 87, type |-> "markdown", stmts |-> << >>],
    [idx |-> 88, type |-> "code", stmts |-> <<
        [line |-> 881, reads |-> {"xr", "sa_surf", "sa_mid"}, binds |-> {"sa_surf_outer", "sa_mid_outer"}, call |-> "", arg |-> ""],
        [line |-> 882, reads |-> {"sa_surf_outer"}, binds |-> {}, call |-> "", arg |-> ""] >>],
    [idx |-> 89, type |-> "markdown", stmts |-> << >>],
    [idx |-> 90, type |-> "code", stmts |-> <<
        [line |-> 902, reads |-> {"sa_surf_outer"}, binds |-> {}, call |-> "", arg |-> ""] >>],
    [idx |-> 91, type |-> "markdown", stmts |-> << >>],
    [idx |-> 92, type |-> "markdown", stmts |-> << >>],
    [idx |-> 93, type |-> "code", stmts |-> <<
        [line |-> 927, reads |-> {"sa_surf_outer", "sa_mid_outer"}, binds |-> {}, call |-> "", arg |-> ""] >>],
    [idx |-> 94, type |-> "markdown", stmts |-> << >>],
    [idx |-> 95, type |-> "markdown", stmts |-> << >>],
    [idx |-> 96, type |-> "code", stmts |-> <<
        [line |-> 957, reads |-> {"xr", "sa_surf", "sa_mid"}, binds |-> {"sa_surf_mid"}, call |-> "", arg |-> ""],
        [line |-> 958, reads |-> {"sa_surf_mid"}, binds |-> {}, call |-> "", arg |-> ""] >>],
    [idx |-> 97, type |-> "markdown", stmts |-> << >>],
    [idx |-> 98, type |-> "markdown", stmts |-> << >>],
    [idx |-> 99, type |-> "code", stmts |-> <<
        [line |-> 985, reads |-> {"sa_surf_mid"}, binds |-> {}, call |-> "", arg |-> ""] >>],
    [idx |-> 100, type |-> "code", stmts |-> <<
        [line |-> 996, reads |-> {"sa_surf_mid"}, binds |-> {}, call |-> "", arg |-> ""] >>],
    [idx |-> 101, type |-> "code", stmts |-> <<
        [line |-> 1007, reads |-> {"plt", "sa_surf_mid"}, binds |-> {}, call |-> "", arg |-> ""] >>],
    [idx |-> 102, type |-> "markdown", stmts |-> << >>],
    [idx |-> 103, type |-> "code", stmts |-> <<
        [line |-> 1025, reads |-> {"xr", "sa_surf", "sa_mid"}, binds |-> {"sa_concat_new"}, call |-> "", arg |-> ""],
        [line |-> 1026, reads |-> {"sa_concat_new"}, binds |-> {}, call |-> "", arg |-> ""] >>],
    [idx |-> 104, type |-> "markdown", stmts |-> << >>],
    [idx |-> 105, type |-> "markdown", stmts |-> << >>],
    [idx |-> 106, type |-> "code", stmts |-> <<
        [line |-> 1051, reads |-> {"xr", "argo"}, binds |-> {}, call |-> "", arg |-> ""] >>],
    [idx |-> 107, type |-> "markdown", stmts |-> << >>],
    [idx |-> 108, type |-> "code", stmts |-> <<
        [line |-> 1070, reads |-> {"xr", "argo", "slice"}, binds |-> {}, call |-> "", arg |-> ""] >>],
    [idx |-> 109, type |-> "code", stmts |-> <<
        [line |-> 1084, reads |-> {"xr", "argo", "slice"}, binds |-> {}, call |-> "", arg |-> ""] >>],
    [idx |-> 110, type |-> "markdown", stmts |-> << >>],
    [idx |-> 111, type |-> "markdown", stmts |-> << >>],
    [idx |-> 112, type |-> "code", stmts |-> <<
        [line |-> 1114, reads |-> {"argo"}, binds |-> {}, call |-> "", arg |-> ""] >>],
    [idx |-> 113, type |-> "code", stmts |-> <<
        [line |-> 1125, reads |-> {"argo"}, binds |-> {}, call |-> "", arg |-> ""] >>],
    [idx |-> 114, type |-> "markdown", stmts |-> << >>],
    [idx |-> 115, type |-> "code", stmts |-> <<
        [line |-> 1143, reads |-> {"argo"}, binds |-> {"argo_mean"}, call |-> "", arg |-> ""],
        [line |-> 1144, reads |-> {"argo_mean"}, binds |-> {}, call |-> "", arg |-> ""] >>],
    [idx |-> 116, type |-> "code", stmts |-> <<
        [line |-> 1155, reads |-> {"argo_mean"}, binds |-> {}, call |-> "", arg |-> ""] >>],
    [idx |-> 117, type |-> "code", stmts |-> <<
        [line |-> 1166, reads |-> {"argo"}, binds |-> {"argo_std"}, call |-> "", arg |-> ""],
        [line |-> 1167, reads |-> {"argo_std"}, binds |-> {}, call |-> "", arg |-> ""] >>],
    [idx |-> 118, type |-> "markdown", stmts |-> << >>],
    [idx |-> 119, type |-> "markdown", stmts |-> << >>],
    [idx |-> 120, type |-> "code", stmts |-> <<
        [line |-> 1196, reads |-> {"argo"}, binds |-> {"mean_pressure"}, call |-> "", arg |-> ""],
        [line |-> 1197, reads |-> {}, binds |-> {"p0"}, call |-> "", arg |-> ""],
        [line |-> 1198, reads |-> {"np", "mean_pressure", "p0"}, binds |-> {"weights"}, call |-> "", arg |-> ""],
        [line |-> 1199, reads |-> {"weights"}, binds |-> {}, call |-> "", arg |-> ""] >>],
    [idx |-> 121, type |-> "markdown", stmts |-> << >>],
    [idx |-> 122, type |-> "code", stmts |-> <<
        [line |-> 1217, reads |-> {"argo", "weights"}, binds |-> {"temp_weighted_mean"}, call |-> "", arg |-> ""] >>],
    [idx |-> 123, type |-> "markdown", stmts |-> << >>],
    [idx |-> 124, type |-> "code", stmts |-> <<
        [line |-> 1235, reads |-> {"temp_weighted_mean"}, binds |-> {}, call |-> "", arg |-> ""],
        [line |-> 1236, reads |-> {"argo"}, binds |-> {}, call |-> "", arg |-> ""],
        [line |-> 1237, reads |-> {"plt"}, binds |-> {}, call |-> "", arg |-> ""] >>]
  >>

xarray_advanced ==
  <<
    [idx |-> 0, type |-> "markdown", stmts |-> << >>],
    [idx |-> 1, type |-> "markdown", stmts |-> << >>],
    [idx |-> 2, type |-> "markdown", stmts |-> << >>],
    [idx |-> 3, type |-> "code", stmts |-> <<
        [line |-> 34, reads |-> {}, binds |-> {"np"}, call |-> "", arg |-> ""],
        [line |-> 35, reads |-> {}, binds |-> {"xr"}, call |-> "", arg |-> ""],
        [line |-> 36, reads |-> {}, binds |-> {"plt"}, call |-> "", arg |-> ""] >>],
    [idx |-> 4, type |-> "markdown", stmts |-> << >>],
    [idx |-> 5, type |-> "markdown", stmts |-> << >>],
    [idx |-> 6, type |-> "code", stmts |-> <<
        [line |-> 64, reads |-> {"np"}, binds |-> {"x_data"}, call |-> "", arg |-> ""],
        [line |-> 65, reads |-> {"xr", "x_data"}, binds |-> {"f"}, call |-> "", arg |-> ""],
        [line |-> 66, reads |-> {"f"}, binds |-> {}, call |-> "", arg |-> ""] >>],
    [idx |-> 7, type |-> "code", stmts |-> <<
        [line |-> 77, reads |-> {"f"}, binds |-> {}, call |-> "", arg |-> ""] >>],
    [idx |-> 8, type |-> "code", stmts |-> <<
        [line |-> 88, reads |-> {"f"}, binds |-> {}, call |-> "sel", arg |-> "3"] >>],
    [idx |-> 9, type |-> "markdown", stmts |-> << >>],
    [idx |-> 10, type |-> "code", stmts |-> <<
        [line |-> 108, reads |-> {"f"}, binds |-> {}, call |-> "sel", arg |-> "4.5"] >>],
    [idx |-> 11, type |-> "markdown", stmts |-> << >>],
    [idx |-> 12, type |-> "code", stmts |-> <<
        [line |-> 126, reads |-> {"f"}, binds |-> {}, call |-> "", arg |-> ""] >>],
    [idx |-> 13, type |-> "markdown", stmts |-> << >>],
    [idx |-> 14, type |-> "code", stmts |-> <<
        [line |-> 145, reads |-> {"f"}, binds |-> {}, call |-> "", arg |-> ""] >>],
    [idx |-> 15, type |-> "code", stmts |-> <<
        [line |-> 156, reads |-> {"f"}, binds |-> {}, call |-> "", arg |-> ""] >>],
    [idx |-> 16, type |-> "code", stmts |-> <<
        [line |-> 167, reads |-> {"f"}, binds |-> {}, call |-> "", arg |-> ""] >>],
    [idx |-> 17, type |-> "markdown", stmts |-> << >>],
    [idx |-> 18, type |-> "code", stmts |-> <<
        [line |-> 185, reads |-> {"x_data"}, binds |-> {"x_new"}, call |-> "", arg |-> ""],
        [line |-> 186, reads |-> {"f", "x_new"}, binds |-> {"f_interp_linear"}, call |-> "", arg |-> ""],
        [line |-> 187, reads |-> {"f", "x_new"}, binds |-> {"f_interp_cubic"}, call |-> "", arg |-> ""],
        [line |-> 188, reads |-> {"f"}, binds |-> {}, call |-> "", arg |-> ""],
        [line |-> 189, reads |-> {"f_interp_linear"}, binds |-> {}, call |-> "", arg |-> ""],
        [line |-> 190, reads |-> {"f_interp_cubic"}, binds |-> {}, call |-> "", arg |-> ""],
        [line |-> 191, reads |-> {"plt"}, binds |-> {}, call |-> "", arg |-> ""] >>],
    [idx |-> 19, type |-> "markdown", stmts |-> << >>],
    [idx |-> 20, type |-> "code", stmts |-> <<
        [line |-> 209, reads |-> {"f_interp_cubic"}, binds |-> {}, call |-> "", arg |-> ""] >>],
    [idx |-> 21, type |-> "markdown", stmts |-> << >>],
    [idx |-> 22, type |-> "markdown", stmts |-> << >>],
    [idx |-> 23, type |-> "markdown", stmts |-> << >>],
    [idx |-> 24, type |-> "markdown", stmts |-> << >>],
    [idx |-> 25, type |-> "code", stmts |-> <<
        [line |-> 267, reads |-> {}, binds |-> {"pooch"}, call |-> "", arg |-> ""] >>],
    [idx |-> 26, type |-> "code", stmts |-> <<
        [line |-> 279, reads |-> {"pooch"}, binds |-> {"gistemp_file"}, call |-> "retrieve", arg |-> "None"] >>],
    [idx |-> 27, type |-> "code", stmts |-> <<
        [line |-> 293, reads |-> {"xr", "gistemp_file"}, binds |-> {"ds"}, call |-> "", arg |-> ""],
        [line |-> 294, reads |-> {"ds"}, binds |-> {}, call |-> "", arg |-> ""] >>],
    [idx |-> 28, type |-> "code", stmts |-> <<
        [line |-> 305, reads |-> {"ds"}, binds |-> {}, call |-> "", arg |-> ""],
        [line |-> 306, reads |-> {"plt"}, binds |-> {}, call |-> "", arg |-> ""] >>],
    [idx |-> 29, type |-> "code", stmts |-> <<
        [line |-> 317, reads |-> {"ds"}, binds |-> {}, call |-> "", arg |-> ""],
        [line |-> 318, reads |-> {"plt"}, binds |-> {}, call |-> "", arg |-> ""] >>],
    [idx |-> 30, type |-> "markdown", stmts |-> << >>],
    [idx |-> 31, type |-> "code", stmts |-> <<
        [line |-> 336, reads |-> {"ds"}, binds |-> {}, call |-> "", arg |-> ""],
        [line |-> 337, reads |-> {"plt"}, binds |-> {}, call |-> "", arg |-> ""] >>],
    [idx |-> 32, type |-> "markdown", stmts |-> << >>],
    [idx |-> 33, type |-> "markdown", stmts |-> << >>],
    [idx |-> 34, type |-> "markdown", stmts |-> << >>],
    [idx |-> 35, type |-> "code", stmts |-> <<
        [line |-> 376, reads |-> {}, binds |-> {"url"}, call |-> "", arg |-> ""],
        [line |-> 377, reads |-> {"xr", "url"}, binds |-> {"ds"}, call |-> "", arg |-> ""] >>],
    [idx |-> 36, type |-> "code", stmts |-> <<
        [line |-> 388, reads |-> {"ds", "slice"}, binds |-> {"ds"}, call |-> "", arg |-> ""],
        [line |-> 389, reads |-> {"ds"}, binds |-> {}, call |-> "", arg |-> ""] >>],
    [idx |-> 37, type |-> "markdown", stmts |-> << >>],
    [idx |-> 38, type |-> "code", stmts |-> <<
        [line |-> 407, reads |-> {"ds", "ax"}, binds |-> {}, call |-> "", arg |-> ""],
        [line |-> 408, reads |-> {"plt"}, binds |-> {}, call |-> "", arg |-> ""] >>],
    [idx |-> 39, type |-> "markdown", stmts |-> << >>],
    [idx |-> 40, type |-> "code", stmts |-> <<
        [line |-> 426, reads |-> {"ds"}, binds |-> {}, call |-> "", arg |-> ""] >>],
    [idx |-> 41, type |-> "code", stmts |-> <<
        [line |-> 437, reads |-> {"ds"}, binds |-> {}, call |-> "", arg |-> ""],
        [line |-> 438, reads |-> {"plt"}, binds |-> {}, call |-> "", arg |-> ""] >>],
    [idx |-> 42, type |-> "markdown", stmts |-> << >>],
    [idx |-> 43, type |-> "markdown", stmts |-> << >>],
    [idx |-> 44, type |-> "markdown", stmts |-> << >>],
    [idx |-> 45, type |-> "code", stmts |-> <<
        [line |-> 475, reads |-> {"ds"}, binds |-> {}, call |-> "", arg |-> ""] >>],
    [idx |-> 46, type |-> "code", stmts |-> <<
        [line |-> 486, reads |-> {"ds"}, binds |-> {}, call |-> "", arg |-> ""] >>],
    [idx |-> 47, type |-> "code", stmts |-> <<
        [line |-> 497, reads |-> {"ds"}, binds |-> {}, call |-> "", arg |-> ""] >>],
    [idx |-> 48, type |-> "markdown", stmts |-> << >>],
    [idx |-> 49, type |-> "code", stmts |-> <<
        [line |-> 515, reads |-> {"ds"}, binds |-> {"gb"}, call |-> "", arg |-> ""],
        [line |-> 516, reads |-> {"gb"}, binds |-> {}, call |-> "", arg |-> ""] >>],
    [idx |-> 50, type |-> "markdown", stmts |-> << >>],
    [idx |-> 51, type |-> "code", stmts |-> <<
        [line |-> 534, reads |-> {"ds"}, binds |-> {"gb"}, call |-> "", arg |-> ""],
        [line |-> 535, reads |-> {"gb"}, binds |-> {}, call |-> "", arg |-> ""] >>],
    [idx |-> 52, type |-> "markdown", stmts |-> << >>],
    [idx |-> 53, type |-> "code", stmts |-> <<
        [line |-> 553, reads |-> {"gb", "print"}, binds |-> {"group_name", "group_da"}, call |-> "", arg |-> ""],
        [line |-> 556, reads |-> {"group_da"}, binds |-> {}, call |-> "", arg |-> ""] >>],
    [idx |-> 54, type |-> "markdown", stmts |-> << >>],
    [idx |-> 55, type |-> "markdown", stmts |-> << >>],
    [idx |-> 56, type |-> "markdown", stmts |-> << >>],
    [idx |-> 57, type |-> "code", stmts |-> <<
        [line |-> 596, reads |-> {"gb"}, binds |-> {}, call |-> "", arg |-> ""] >>],
    [idx |-> 58, type |-> "markdown", stmts |-> << >>],
    [idx |-> 59, type |-> "markdown", stmts |-> << >>],
    [idx |-> 60, type |-> "code", stmts |-> <<
        [line |-> 621, reads |-> {"gb"}, binds |-> {"sst_mm"}, call |-> "", arg |-> ""],
        [line |-> 622, reads |-> {"sst_mm"}, binds |-> {}, call |-> "", arg |-> ""] >>],
    [idx |-> 61, type |-> "markdown", stmts |-> << >>],
    [idx |-> 62, type |-> "code", stmts |-> <<
        [line |-> 640, reads |-> {"gb", "np"}, binds |-> {}, call |-> "", arg |-> ""] >>],
    [idx |-> 63, type |-> "markdown", stmts |-> << >>],
    [idx |-> 64, type |-> "code", stmts |-> <<
        [line |-> 658, reads |-> {}, binds |-> {"time_mean"}, call |-> "", arg |-> ""],
        [line |-> 661, reads |-> {"gb", "time_mean"}, binds |-> {"sst_mm"}, call |-> "", arg |-> ""],
        [line |-> 662, reads |-> {"sst_mm"}, binds |-> {}, call |-> "", arg |-> ""] >>],
    [idx |-> 65, type |-> "markdown", stmts |-> << >>],
    [idx |-> 66, type |-> "code", stmts |-> <<
        [line |-> 682, reads |-> {"sst_mm"}, binds |-> {}, call |-> "", arg |-> ""],
        [line |-> 683, reads |-> {"plt"}, binds |-> {}, call |-> "", arg |-> ""] >>],
    [idx |-> 67, type |-> "markdown", stmts |-> << >>],
    [idx |-> 68, type |-> "code", stmts |-> <<
        [line |-> 703, reads |-> {"sst_mm"}, binds |-> {}, call |-> "", arg |-> ""],
        [line |-> 704, reads |-> {"plt"}, binds |-> {}, call |-> "", arg |-> ""] >>],
    [idx |-> 69, type |-> "markdown", stmts |-> << >>],
    [idx |-> 70, type |-> "code", stmts |-> <<
        [line |-> 722, reads |-> {"sst_mm"}, binds |-> {}, call |-> "", arg |-> ""],
        [line |-> 723, reads |-> {"plt"}, binds |-> {}, call |-> "", arg |-> ""] >>],
    [idx |-> 71, type |-> "markdown", stmts |-> << >>],
    [idx |-> 72, type |-> "markdown", stmts |-> << >>],
    [idx |-> 73, type |-> "code", stmts |-> <<
        [line |-> 749, reads |-> {}, binds |-> {"remove_time_mean"}, call |-> "", arg |-> ""],
        [line |-> 752, reads |-> {"ds", "remove_time_mean"}, binds |-> {"ds_anom"}, call |-> "", arg |-> ""],
        [line |-> 753, reads |-> {"ds_anom"}, binds |-> {}, call |-> "", arg |-> ""] >>],
    [idx |-> 74, type |-> "markdown", stmts |-> << >>],
    [idx |-> 75, type |-> "code", stmts |-> <<
        [line |-> 776, reads |-> {"ds"}, binds |-> {"gb"}, call |-> "", arg |-> ""],
        [line |-> 777, reads |-> {"gb"}, binds |-> {"ds_anom"}, call |-> "", arg |-> ""],
        [line |-> 778, reads |-> {"ds_anom"}, binds |-> {}, call |-> "", arg |-> ""] >>],
    [idx |-> 76, type |-> "markdown", stmts |-> << >>],
    [idx |-> 77, type |-> "code", stmts |-> <<
        [line |-> 798, reads |-> {"ds_anom"}, binds |-> {}, call |-> "", arg |-> ""],
        [line |-> 799, reads |-> {"plt"}, binds |-> {}, call |-> "", arg |-> ""] >>],
    [idx |-> 78, type |-> "markdown", stmts |-> << >>],
    [idx |-> 79, type |-> "code", stmts |-> <<
        [line |-> 817, reads |-> {"ds_anom"}, binds |-> {}, call |-> "", arg |-> ""],
        [line |-> 818, reads |-> {"plt"}, binds |-> {}, call |-> "", arg |-> ""] >>],
    [idx |-> 80, type |-> "markdown", stmts |-> << >>],
    [idx |-> 81, type |-> "markdown", stmts |-> << >>],
    [idx |-> 82, type |-> "markdown", stmts |-> << >>],
    [idx |-> 83, type |-> "code", stmts |-> <<
        [line |-> 855, reads |-> {"ds_anom"}, binds |-> {"ds_anom_resample"}, call |-> "", arg |-> ""],
        [line |-> 856, reads |-> {"ds_anom_resample"}, binds |-> {}, call |-> "", arg |-> ""] >>],
    [idx |-> 84, type |-> "code", stmts |-> <<
        [line |-> 867, reads |-> {"ds_anom"}, binds |-> {}, call |-> "", arg |-> ""],
        [line |-> 868, reads |-> {"ds_anom_resample"}, binds |-> {}, call |-> "", arg |-> ""],
        [line |-> 869, reads |-> {"plt"}, binds |-> {}, call |-> "", arg |-> ""] >>],
    [idx |-> 85, type |-> "code", stmts |-> <<
        [line |-> 880, reads |-> {"ds_anom_resample"}, binds |-> {}, call |-> "", arg |-> ""],
        [line |-> 882, reads |-> {"plt"}, binds |-> {}, call |-> "", arg |-> ""] >>],
    [idx |-> 86, type |-> "markdown", stmts |-> << >>],
    [idx |-> 87, type |-> "markdown", stmts |-> << >>],
    [idx |-> 88, type |-> "code", stmts |-> <<
        [line |-> 909, reads |-> {"ds_anom"}, binds |-> {"ds_anom_rolling"}, call |-> "", arg |-> ""],
        [line |-> 910, reads |-> {"ds_anom_rolling"}, binds |-> {}, call |-> "", arg |-> ""] >>],
    [idx |-> 89, type |-> "code", stmts |-> <<
        [line |-> 921, reads |-> {"ds_anom"}, binds |-> {}, call |-> "", arg |-> ""],
        [line |-> 922, reads |-> {"ds_anom_resample"}, binds |-> {}, call |-> "", arg |-> ""],
        [line |-> 923, reads |-> {"ds_anom_rolling"}, binds |-> {}, call |-> "", arg |-> ""],
        [line |-> 924, reads |-> {"plt"}, binds |-> {}, call |-> "", arg |-> ""],
        [line |-> 925, reads |-> {"plt"}, binds |-> {}, call |-> "", arg |-> ""] >>],
    [idx |-> 90, type |-> "markdown", stmts |-> << >>],
    [idx |-> 91, type |-> "markdown", stmts |-> << >>],
    [idx |-> 92, type |-> "code", stmts |-> <<
        [line |-> 954, reads |-> {"ds"}, binds |-> {}, call |-> "", arg |-> ""] >>],
    [idx |-> 93, type |-> "markdown", stmts |-> << >>],
    [idx |-> 94, type |-> "code", stmts |-> <<
        [line |-> 972, reads |-> {"ds"}, binds |-> {"ds_coarse"}, call |-> "", arg |-> ""],
        [line |-> 973, reads |-> {"ds_coarse"}, binds |-> {}, call |-> "", arg |-> ""],
        [line |-> 974, reads |-> {"plt"}, binds |-> {}, call |-> "", arg |-> ""] >>],
    [idx |-> 95, type |-> "code", stmts |-> << >>]
  >>

Notebooks == {"xarray_fundamentals", "xarray_advanced"}

Cells(n) == IF n = "xarray_fundamentals" THEN xarray_fundamentals ELSE xarray_advanced

\* Names every Python namespace resolves without a binding (builtins).
Builtins == {"print", "slice"}

\* x_data = np.array([0, 1, ..., 10]), the index of f, in units of 1/2 so
\* that the label 4.5 is a whole number.
Half(n) == 2 * n
x_data == [i \in 1..11 |-> Half(i - 1)]

\* The x= argument of f.sel(x=...), in units of 1/2.
SelArg(arg) == IF arg = "4.5" THEN 9 ELSE Half(3)

\* pandas Index.get_loc: the positions of index that carry label.
get_loc(index, label) == {i \in DOMAIN index : index[i] = label}

\* What a download can deliver: the file as published, or altered bytes.
Contents == {"intact", "corrupted"}

\* The hash of the file as published at the URL of each notebook's download.
PublishedHash(n) ==
    IF n = "xarray_fundamentals"
    THEN "2a703c720302c682f1662181d329c9f22f9f10e1539dc2d6082160a469165009"
    ELSE "sha256 of gistemp1200_GHCNv4_ERSSTv5.nc"

\* sha256 of the downloaded bytes: altered bytes hash to another value.
file_hash(n, content) == IF content = "intact" THEN PublishedHash(n) ELSE "sha256 of altered bytes"

\* pooch.retrieve(url, known_hash=...): with known_hash=None the file is
\* returned unchecked; otherwise the hash of the downloaded file is compared
\* with known_hash and a mismatch raises ValueError.
retrieve_ignores_hash(n, known_hash, content) ==
    [ok |-> TRUE, checked |-> FALSE]

retrieve(n, known_hash, content) ==
    IF known_hash = "None"
    THEN [ok |-> TRUE, checked |-> FALSE]
    ELSE [ok |-> file_hash(n, content) = known_hash, checked |-> TRUE]

\* One top-level statement of a code cell, run in kernel state
\* st = [ns, errors, dl, corrupt, raised]; content is what a download made
\* by the statement delivers.
Raise(st, c, s, kind) ==
    [st EXCEPT !.errors = @ \cup {[cell |-> c.idx, line |-> s.line, kind |-> kind,
                                      lost |-> s.binds]},
               !.raised = TRUE]

Bind(st, s, bad) ==
    [st EXCEPT !.ns = @ \cup s.binds,
               !.corrupt = IF bad THEN @ \cup s.binds ELSE @ \ s.binds]

ExecStmt(n, c, s, st, content) ==
    IF ~(s.reads \subseteq (st.ns \cup Builtins))
    THEN Raise(st, c, s, "NameError")
    ELSE IF s.call = "retrieve"
    THEN LET r == retrieve(n, s.arg, content)
             att == [line |-> s.line, known_hash |-> s.arg, content |-> content,
                     ok |-> r.ok, checked |-> r.checked, binds |-> s.binds]
             st1 == [st EXCEPT !.dl = @ \cup {att}]
         IN IF r.ok THEN Bind(st1, s, content = "corrupted")
                    ELSE Raise(st1, c, s, "ValueError")
    ELSE IF s.call = "sel" /\ get_loc(x_data, SelArg(s.arg)) = {}
    THEN Raise(st, c, s, "KeyError")
    ELSE Bind(st, s, s.reads \cap st.corrupt # {})

\* The statements of a cell run in order; the first exception ends the cell.
RECURSIVE ExecCell(_, _, _, _, _)
ExecCell(n, c, i, st, content) ==
    IF i > Len(c.stmts) \/ st.raised
    THEN st
    ELSE ExecCell(n, c, i + 1, ExecStmt(n, c, c.stmts[i], st, content), content)

NbInit ==
    /\ nb \in Notebooks
    /\ pc = 1
    /\ ns = {}
    /\ errors = {}
    /\ dl = {}
    /\ corrupt = {}

\* A markdown cell renders; the kernel is not involved.
RenderMarkdown ==
    /\ pc <= Len(Cells(nb))
    /\ Cells(nb)[pc].type = "markdown"
    /\ pc' = pc + 1
    /\ UNCHANGED <<nb, ns, errors, dl, corrupt, imgvars, idxvars, argovars, sstvars>>

\* The next code cell runs to its end or to its first exception; the kernel
\* keeps what was bound and the session moves to the next cell.
RunCell ==
    /\ pc <= Len(Cells(nb))
    /\ Cells(nb)[pc].type = "code"
    /\ \E content \in Contents :
         LET st == ExecCell(nb, Cells(nb)[pc], 1,
                            [ns |-> ns, errors |-> errors, dl |-> dl,
                             corrupt |-> corrupt, raised |-> FALSE], content)
         IN /\ ns' = st.ns
            /\ errors' = st.errors
            /\ dl' = st.dl
            /\ corrupt' = st.corrupt
    /\ pc' = pc + 1
    /\ UNCHANGED <<nb, imgvars, idxvars, argovars, sstvars>>

(***************************************************************************)
(* Claims about the kernel session.                                        *)
(***************************************************************************)

Range(s) == {s[i] : i \in DOMAIN s}

StmtsOf(n) == UNION {Range(c.stmts) : c \in Range(Cells(n))}

\* The names bound by the statements that load from the downloaded files
\* (P, S, T, date, lat, levels, lon).
NpLoaded ==
    UNION {s.binds : s \in {t \in StmtsOf("xarray_fundamentals") : "files" \in t.reads}}

NameErrors == {e \in errors : e.kind = "NameError"}

\* No binding was lost to a library error: every exception other than a
\* NameError was raised by a statement that binds nothing.
NoLostBinding == \A e \in errors : e.kind # "NameError" => e.lost = {}

\* C1 (as claimed): in a session that runs the cells of a notebook once each,
\* top to bottom, from an empty namespace, and in which no library error kept
\* a statement from binding its names, no statement fails on an undefined
\* name: every name a cell reads was bound by that cell or an earlier one.
C1_NoUndefinedName == NoLostBinding => NameErrors = {}

\* C2 (as claimed): every file a pooch.retrieve call hands to the notebook
\* was compared with a known hash before a later cell uses it.
C2_EveryDownloadVerified == \A a \in dl : a.ok => a.checked

\* C3: a pooch.retrieve call that is given a known hash ends in an error
\* when the hash of the fetched file differs from it: nothing is returned
\* (files stays unbound), none of the np.load statements binds an array and
\* no name holds corrupted content; when the hashes match the call returns
\* and files is bound.
C3_MismatchAbortsDownload ==
    \A a \in dl : a.known_hash # "None" =>
        IF file_hash(nb, a.content) # a.known_hash
        THEN /\ ~a.ok
             /\ \E e \in errors : e.line = a.line /\ e.kind = "ValueError"
             /\ a.binds \cap ns = {}
             /\ NpLoaded \cap ns = {}
             /\ corrupt = {}
        ELSE /\ a.ok
             /\ a.binds \subseteq ns
             /\ \A e \in errors : e.kind # "ValueError"
             /\ corrupt = {}

\* C3 witness: the fundamentals session fetched a file whose hash differs
\* from the known hash and has gone past the np.load cell, every statement
\* of which stopped on the unbound name files.
C3_Witness ==
    /\ nb = "xarray_fundamentals"
    /\ \E a \in dl : a.known_hash # "None" /\ a.content = "corrupted"
    /\ \E e \in NameErrors : e.line = 250
    /\ pc > Len(Cells(nb))

(***************************************************************************)
(* The container image: the Dockerfile, built instruction by instruction,  *)
(* and the container the README's docker run starts from it.               *)
(***************************************************************************)

EmptyMap == [x \in {} |-> ""]

Put(f, k, v) == [x \in DOMAIN f \cup {k} |-> IF x = k THEN v ELSE f[x]]

Join(dir, name) == IF dir = "/" THEN "/" \o name ELSE dir \o "/" \o name

\* EXPOSE 8888
EXPOSE == 8888

\* CMD ["jupyter", "lab", "--ip=0.0.0.0"]
CMD_without_ip == [exe |-> "jupyter", sub |-> "lab", opts |-> {}]

CMD == [exe |-> "jupyter", sub |-> "lab", opts |-> {[opt |-> "ip", val |-> "0.0.0.0"]}]

\* COPY --chown=gisuser <notebook> .
COPY_without_chown(file) == [op |-> "COPY", src |-> file, dst |-> ".", chown |-> ""]

COPY_notebook(file) == [op |-> "COPY", src |-> file, dst |-> ".", chown |-> "gisuser"]

\* The instructions of the Dockerfile, in order, with their line.
Dockerfile ==
  <<
    [line |-> 1,  ins |-> [op |-> "FROM", image |-> "continuumio/miniconda3:24.7.1-0"]],
    [line |-> 3,  ins |-> [op |-> "COPY", src |-> "environment.yml", dst |-> ".", chown |-> ""]],
    [line |-> 4,  ins |-> [op |-> "RUN", cmd |-> "conda env create", file |-> "environment.yml"]],
    [line |-> 7,  ins |-> [op |-> "RUN", cmd |-> "echo >>", text |-> "conda activate xarray_tutorial",
                           file |-> "~/.bashrc"]],
    [line |-> 8,  ins |-> [op |-> "ENV", var |-> "PATH", append |-> "/opt/conda/envs/xarray_tutorial/bin"]],
    [line |-> 11, ins |-> [op |-> "RUN", cmd |-> "useradd -m", name |-> "gisuser"]],
    [line |-> 12, ins |-> [op |-> "USER", name |-> "gisuser"]],
    [line |-> 14, ins |-> [op |-> "WORKDIR", dir |-> "/home/gisuser"]],
    [line |-> 15, ins |-> COPY_notebook("xarray_fundamentals.ipynb")],
    [line |-> 16, ins |-> COPY_notebook("xarray_advanced.ipynb")],
    [line |-> 19, ins |-> [op |-> "EXPOSE", port |-> EXPOSE]],
    [line |-> 22, ins |-> [op |-> "CMD", cmd |-> CMD]]
  >>

\* The notebooks the repository ships and the one the README says to open.
NotebookFiles == {"xarray_fundamentals.ipynb", "xarray_advanced.ipynb"}

README_open == "xarray_fundamentals.ipynb"

\* docker run -it -p 8888:8888 xarray-tutorial
README_run == [publish |-> [host |-> 8888, container |-> 8888]]

\* environment.yml: the Conda environment the image creates (the name the
\* Dockerfile activates and puts on PATH) and the programs its packages
\* install.
environment_yml == [name |-> "xarray_tutorial", bin |-> {"python", "jupyter"}]

\* The base image continuumio/miniconda3: root, Conda's base environment
\* first on PATH, root's .bashrc activating base, no jupyter installed.
BaseImage ==
    [user    |-> "root",
     workdir |-> "/",
     path    |-> <<"/opt/conda/bin", "/usr/local/bin", "/usr/bin", "/bin">>,
     home    |-> [u \in {"root"} |-> "/root"],
     owner   |-> [p \in {"/opt/conda/bin/conda", "/opt/conda/bin/python", "/root/.bashrc"}
                    |-> "root"],
     text    |-> [p \in {"/root/.bashrc"} |-> <<"conda activate base">>],
     exposed |-> {},
     cmd     |-> [exe |-> "bash", sub |-> "", opts |-> {}]]

NoImage ==
    [user |-> "", workdir |-> "", path |-> << >>, home |-> EmptyMap, owner |-> EmptyMap,
     text |-> EmptyMap, exposed |-> {}, cmd |-> [exe |-> "", sub |-> "", opts |-> {}]]

\* ~ in a RUN line is the home directory of the user the build runs as.
Expand(image, file) ==
    IF file = "~/.bashrc" THEN Join(image.home[image.user], ".bashrc") ELSE file

\* A destination relative to the working directory.
Dest(image, dst, name) == IF dst = "." THEN Join(image.workdir, name) ELSE Join(dst, name)

\* COPY: files copied without --chown belong to root whatever USER is.
copy(image, ins) ==
    [image EXCEPT !.owner = Put(@, Dest(image, ins.dst, ins.src),
                                IF ins.chown = "" THEN "root" ELSE ins.chown)]

\* conda env create -f environment.yml: the environment's programs appear
\* under /opt/conda/envs/<name>/bin.
RECURSIVE PutAll(_, _, _)
PutAll(f, keys, v) ==
    IF keys = {} THEN f
    ELSE LET k == CHOOSE x \in keys : TRUE IN PutAll(Put(f, k, v), keys \ {k}, v)

conda_env_create(image, env) ==
    [image EXCEPT !.owner =
        PutAll(@, {Join("/opt/conda/envs/" \o env.name \o "/bin", b) : b \in env.bin},
               image.user)]

\* echo TEXT >> FILE: append a line, creating the file if it is missing.
echo_append(image, file, line) ==
    LET p == Expand(image, file)
    IN [image EXCEPT
          !.owner = IF p \in DOMAIN @ THEN @ ELSE Put(@, p, image.user),
          !.text  = Put(@, p, IF p \in DOMAIN @ THEN Append(@[p], line) ELSE <<line>>)]

\* useradd -m NAME: the account, its home directory and the skeleton files.
useradd(image, name) ==
    LET h == "/home/" \o name
    IN [image EXCEPT
          !.home  = Put(@, name, h),
          !.owner = Put(Put(@, h, name), Join(h, ".bashrc"), name),
          !.text  = Put(@, Join(h, ".bashrc"), << >>)]

run(image, ins) ==
    IF ins.cmd = "conda env create" THEN conda_env_create(image, environment_yml)
    ELSE IF ins.cmd = "echo >>" THEN echo_append(image, ins.file, ins.text)
    ELSE useradd(image, ins.name)

\* The program a command name resolves to: the first PATH entry holding it.
RECURSIVE which(_, _, _)
which(image, exe, i) ==
    IF i > Len(image.path) THEN ""
    ELSE IF Join(image.path[i], exe) \in DOMAIN image.owner THEN Join(image.path[i], exe)
    ELSE which(image, exe, i + 1)

\* jupyter lab: ServerApp.ip defaults to localhost and ServerApp.port to
\* 8888; the server's root directory is the directory it is started in.
jupyter_defaults == [ip |-> "localhost", port |-> 8888]

Option(cmd, name, default) ==
    IF \E o \in cmd.opts : o.opt = name
    THEN (CHOOSE o \in cmd.opts : o.opt = name).val
    ELSE default

jupyter_lab(image, cmd) ==
    [user |-> image.user,
     cwd  |-> image.workdir,
     exe  |-> which(image, cmd.exe, 1),
     ip   |-> Option(cmd, "ip", jupyter_defaults.ip),
     port |-> Option(cmd, "port", jupyter_defaults.port)]

NoContainer ==
    [status |-> "none", owner |-> EmptyMap, proc |-> [user |-> "", cwd |-> "", exe |-> "", ip |-> "", port |-> 0],
     publish |-> [host |-> 0, container |-> 0], open |-> {}, rev |-> EmptyMap]

\* Bounds of the Lab session: saves per notebook, containers started.
MaxSaves == 3
MaxRuns == 2

ImgInit ==
    /\ bpc = 1
    /\ img = NoImage
    /\ ctr = NoContainer
    /\ runs = 0

Building(op) == bpc <= Len(Dockerfile) /\ Dockerfile[bpc].ins.op = op

Ins == Dockerfile[bpc].ins

\* docker build, one action per kind of instruction.
From ==
    /\ Building("FROM")
    /\ img' = BaseImage
    /\ bpc' = bpc + 1
    /\ UNCHANGED <<ctr, runs, nbvars, idxvars, argovars, sstvars>>

Copy ==
    /\ Building("COPY")
    /\ img' = copy(img, Ins)
    /\ bpc' = bpc + 1
    /\ UNCHANGED <<ctr, runs, nbvars, idxvars, argovars, sstvars>>

Run ==
    /\ Building("RUN")
    /\ img' = run(img, Ins)
    /\ bpc' = bpc + 1
    /\ UNCHANGED <<ctr, runs, nbvars, idxvars, argovars, sstvars>>

Env ==
    /\ Building("ENV")
    /\ img' = [img EXCEPT !.path = Append(@, Ins.append)]
    /\ bpc' = bpc + 1
    /\ UNCHANGED <<ctr, runs, nbvars, idxvars, argovars, sstvars>>

User ==
    /\ Building("USER")
    /\ img' = [img EXCEPT !.user = Ins.name]
    /\ bpc' = bpc + 1
    /\ UNCHANGED <<ctr, runs, nbvars, idxvars, argovars, sstvars>>

Workdir ==
    /\ Building("WORKDIR")
    /\ img' = [img EXCEPT !.workdir = Ins.dir,
                          !.owner = IF Ins.dir \in DOMAIN @ THEN @ ELSE Put(@, Ins.dir, "root")]
    /\ bpc' = bpc + 1
    /\ UNCHANGED <<ctr, runs, nbvars, idxvars, argovars, sstvars>>

Expose ==
    /\ Building("EXPOSE")
    /\ img' = [img EXCEPT !.exposed = @ \cup {Ins.port}]
    /\ bpc' = bpc + 1
    /\ UNCHANGED <<ctr, runs, nbvars, idxvars, argovars, sstvars>>

Cmd ==
    /\ Building("CMD")
    /\ img' = [img EXCEPT !.cmd = Ins.cmd]
    /\ bpc' = bpc + 1
    /\ UNCHANGED <<ctr, runs, nbvars, idxvars, argovars, sstvars>>

\* docker run -it -p 8888:8888 <image>: a fresh container of the built image
\* whose only process is the image's CMD, run as the image's user in its
\* working directory.
DockerRun ==
    /\ bpc > Len(Dockerfile)
    /\ ctr.status # "running"
    /\ runs < MaxRuns
    /\ runs' = runs + 1
    /\ ctr' = [status  |-> "running",
               owner   |-> img.owner,
               proc    |-> jupyter_lab(img, img.cmd),
               publish |-> README_run.publish,
               open    |-> {},
               rev     |-> [f \in NotebookFiles |-> 0]]
    /\ UNCHANGED <<bpc, img, nbvars, idxvars, argovars, sstvars>>

\* The Lab user opens a notebook listed in the server's root directory.
OpenNotebook(f) ==
    /\ ctr.status = "running"
    /\ f \notin ctr.open
    /\ Join(ctr.proc.cwd, f) \in DOMAIN ctr.owner
    /\ ctr' = [ctr EXCEPT !.open = @ \cup {f}]
    /\ UNCHANGED <<bpc, img, runs, nbvars, idxvars, argovars, sstvars>>

\* The Lab user saves an open notebook: the server process writes the file,
\* which it may when the file belongs to the user it runs as.
SaveNotebook(f) ==
    /\ ctr.status = "running"
    /\ f \in ctr.open
    /\ ctr.owner[Join(ctr.proc.cwd, f)] = ctr.proc.user
    /\ ctr.rev[f] < MaxSaves
    /\ ctr' = [ctr EXCEPT !.rev[f] = @ + 1]
    /\ UNCHANGED <<bpc, img, runs, nbvars, idxvars, argovars, sstvars>>

\* The server is stopped and the container exits.
StopContainer ==
    /\ ctr.status = "running"
    /\ ctr' = [ctr EXCEPT !.status = "exited"]
    /\ UNCHANGED <<bpc, img, runs, nbvars, idxvars, argovars, sstvars>>

ImgNext ==
    \/ From \/ Copy \/ Run \/ Env \/ User \/ Workdir \/ Expose \/ Cmd
    \/ DockerRun
    \/ \E f \in NotebookFiles : OpenNotebook(f)
    \/ \E f \in NotebookFiles : SaveNotebook(f)
    \/ StopContainer

(***************************************************************************)
(* Claims about the image.                                                 *)
(***************************************************************************)

Started == ctr.status # "none"

\* C5: in every container started from the image, the JupyterLab process
\* run by CMD listens on all interfaces on port 8888, the port the
\* Dockerfile exposes and the README's docker run publishes.
C5_ServerOnExposedPort ==
    Started =>
        /\ ctr.proc.port = EXPOSE
        /\ ctr.proc.port \in img.exposed
        /\ ctr.proc.port = ctr.publish.container
        /\ ctr.proc.ip = "0.0.0.0"

\* C5 witness: a second container of the image is running the Lab server.
C5_Witness ==
    /\ ctr.status = "running"
    /\ runs >= 2
    /\ ctr.proc.exe # ""

\* C6: in a running container the notebook the README says to open and the
\* advanced notebook are both in the directory JupyterLab was started in,
\* /home/gisuser, and belong to the user the server runs as, so that each
\* can be opened and, once open, saved.
C6_NotebooksServedAndOwned ==
    ctr.status = "running" =>
        /\ README_open \in NotebookFiles
        /\ ctr.proc.cwd = "/home/gisuser"
        /\ \A f \in NotebookFiles :
             /\ Join(ctr.proc.cwd, f) \in DOMAIN ctr.owner
             /\ ctr.owner[Join(ctr.proc.cwd, f)] = ctr.proc.user
             /\ f \notin ctr.open => ENABLED OpenNotebook(f)
             /\ (f \in ctr.open /\ ctr.rev[f] < MaxSaves) => ENABLED SaveNotebook(f)

\* C6 witness: both notebooks were opened and saved from the Lab server.
C6_Witness ==
    /\ ctr.status = "running"
    /\ ctr.open = NotebookFiles
    /\ \A f \in NotebookFiles : ctr.rev[f] > 0

\* C7 (as claimed): the jupyter program CMD starts, as gisuser, is the one
\* of the xarray_tutorial environment, and the .bashrc that received the
\* line "conda activate xarray_tutorial" is in the home directory of the
\* user the server runs as.
C7_EnvActivatedForServer ==
    Started =>
        /\ ctr.proc.user = "gisuser"
        /\ ctr.proc.exe = "/opt/conda/envs/xarray_tutorial/bin/jupyter"
        /\ \E i \in DOMAIN img.text[Join(img.home[ctr.proc.user], ".bashrc")] :
             img.text[Join(img.home[ctr.proc.user], ".bashrc")][i]
               = "conda activate xarray_tutorial"

\* The kernel session at rest while the image is built and run.
IdleKernel ==
    /\ nb = "xarray_fundamentals" /\ pc = 1 /\ ns = {}
    /\ errors = {} /\ dl = {} /\ corrupt = {}


(***************************************************************************)
(* Labelled one-dimensional arrays: a DataArray with one dimension x, its  *)
(* coordinate (a sorted pandas index) and its values, and the selections   *)
(* the notebooks make on one.                                              *)
(***************************************************************************)

\* Bound of the drawn indexes: their labels are subsets of 0..MaxLabel.
MaxLabel == 4

Abs(n) == IF n < 0 THEN -n ELSE n

Min(a, b) == IF a < b THEN a ELSE b

RECURSIVE SortedSeq(_)
SortedSeq(S) ==
    IF S = {} THEN << >>
    ELSE LET m == CHOOSE x \in S : \A y \in S : x <= y
         IN <<m>> \o SortedSeq(S \ {m})

\* xr.DataArray(values, dims=['x'], coords={'x': coords})
DataArray(values, coords) == [x |-> coords, values |-> values]

\* f = xr.DataArray(x_data**2, dims=['x'], coords={'x': x_data}); the
\* coordinate is kept in units of 1/2, the values are the squares 0, 1, 4, ...
f == DataArray([i \in 1..11 |-> (i - 1) * (i - 1)], x_data)

\* The arrays a session selects from: f, and one array per non-empty set of
\* labels, its values the squares of its labels.
Arrays ==
    {f} \cup {DataArray([i \in DOMAIN SortedSeq(S) |-> SortedSeq(S)[i] * SortedSeq(S)[i]],
                        SortedSeq(S)) : S \in (SUBSET (0..MaxLabel)) \ {{}}}

\* The result of a selection: the selected labels and values, or the error.
Selected(arr, locs) ==
    [error |-> "", x |-> [k \in DOMAIN locs |-> arr.x[locs[k]]],
                   values |-> [k \in DOMAIN locs |-> arr.values[locs[k]]]]

Raised(kind) == [error |-> kind, x |-> << >>, values |-> << >>]

\* pandas get_indexer(method='nearest') on an increasing index: the nearer
\* of the last label <= q and the first label >= q, the larger on a tie.
nearest_loc(index, q) ==
    LET pad  == {i \in DOMAIN index : index[i] <= q}
        fill == {i \in DOMAIN index : index[i] >= q}
        left  == CHOOSE i \in pad : \A j \in pad : j <= i
        right == CHOOSE i \in fill : \A j \in fill : i <= j
    IN IF fill = {} THEN left
       ELSE IF pad = {} THEN right
       ELSE IF q - index[left] < index[right] - q THEN left ELSE right

\* da.sel(x=label): the element at label; KeyError when the index lacks it.
sel_nearest_fallback(arr, label) == Selected(arr, <<nearest_loc(arr.x, label)>>)

sel(arr, label) ==
    IF get_loc(arr.x, label) = {} THEN Raised("KeyError")
    ELSE Selected(arr, <<CHOOSE i \in get_loc(arr.x, label) : TRUE>>)

\* da.sel(x=label, method='nearest')
sel_nearest(arr, label) == Selected(arr, <<nearest_loc(arr.x, label)>>)

\* pandas slice_locs on an increasing index: searchsorted(start, 'left') and
\* searchsorted(stop, 'right'), so both ends are included.
slice_locs_stop_excluded(index, start, stop) ==
    [first |-> Cardinality({i \in DOMAIN index : index[i] < start}) + 1,
     last  |-> Cardinality({i \in DOMAIN index : index[i] < stop})]

slice_locs(index, start, stop) ==
    [first |-> Cardinality({i \in DOMAIN index : index[i] < start}) + 1,
     last  |-> Cardinality({i \in DOMAIN index : index[i] <= stop})]

Run1(first, last) == [k \in 1..(IF last < first THEN 0 ELSE last - first + 1) |-> first + k - 1]

\* da.sel(x=slice(start, stop))
sel_slice(arr, start, stop) ==
    LET r == slice_locs(arr.x, start, stop) IN Selected(arr, Run1(r.first, r.last))

\* da.isel(x=slice(i, j)) for i, j >= 0: Python's slice on positions counted
\* from 0, the stop excluded and both ends clipped to the length.
isel_slice(arr, i, j) ==
    Selected(arr, Run1(Min(i, Len(arr.x)) + 1, Min(j, Len(arr.x))))

NoOut == [op |-> "", a |-> 0, b |-> 0, res |-> Raised("")]

Queries == -1..(da.x[Len(da.x)] + 1)

Positions == 0..(Len(da.x) + 1)

IdxInit ==
    /\ da \in Arrays
    /\ out = NoOut

Sel ==
    \E q \in Queries :
        /\ out' = [op |-> "sel", a |-> q, b |-> q, res |-> sel(da, q)]
        /\ UNCHANGED <<da, nbvars, imgvars, argovars, sstvars>>

SelNearest ==
    \E q \in Queries :
        /\ out' = [op |-> "sel_nearest", a |-> q, b |-> q, res |-> sel_nearest(da, q)]
        /\ UNCHANGED <<da, nbvars, imgvars, argovars, sstvars>>

SelSlice ==
    \E a \in Queries, b \in Queries :
        /\ out' = [op |-> "sel_slice", a |-> a, b |-> b, res |-> sel_slice(da, a, b)]
        /\ UNCHANGED <<da, nbvars, imgvars, argovars, sstvars>>

IselSlice ==
    \E i \in Positions, j \in Positions :
        /\ out' = [op |-> "isel_slice", a |-> i, b |-> j, res |-> isel_slice(da, i, j)]
        /\ UNCHANGED <<da, nbvars, imgvars, argovars, sstvars>>

IdxNext == Sel \/ SelNearest \/ SelSlice \/ IselSlice

(***************************************************************************)
(* Claims about selection.                                                 *)
(***************************************************************************)

\* C4: sel without a method on a label the index lacks ends in KeyError and
\* returns no value (f.sel(x=4.5)); on a label the index has it returns the
\* element at that label (f.sel(x=3) is 9); with method='nearest' it never
\* raises and returns the element whose label is closest to the one asked.
C4_MissingLabelRaises ==
    /\ out.op = "sel" =>
         IF \E i \in DOMAIN da.x : da.x[i] = out.a
         THEN /\ out.res.error = ""
              /\ out.res.x = <<out.a>>
              /\ \E i \in DOMAIN da.x : da.x[i] = out.a /\ out.res.values = <<da.values[i]>>
         ELSE /\ out.res.error = "KeyError"
              /\ out.res.values = << >>
    /\ (out.op = "sel" /\ da = f /\ out.a = Half(3)) => out.res.values = <<9>>
    /\ out.op = "sel_nearest" =>
         /\ out.res.error = ""
         /\ \E p \in DOMAIN da.x :
              /\ out.res.x = <<da.x[p]>>
              /\ out.res.values = <<da.values[p]>>
              /\ \A i \in DOMAIN da.x : Abs(da.x[p] - out.a) <= Abs(da.x[i] - out.a)

\* C4 witness: f.sel(x=4.5) has raised KeyError.
C4_Witness ==
    /\ da = f
    /\ out.op = "sel"
    /\ out.a = 9
    /\ out.res.error = "KeyError"

\* The labels of da between a and b, both included, in index order.
Between(a, b) == SelectSeq(da.x, LAMBDA l : a <= l /\ l <= b)

\* C8: sel with a label slice returns exactly the elements whose label l
\* satisfies start <= l <= stop, both ends included, while isel with the
\* positional slice(i, j) returns the elements at positions i..j-1 only.
C8_LabelSliceInclusive ==
    /\ out.op = "sel_slice" =>
         /\ out.res.error = ""
         /\ out.res.x = Between(out.a, out.b)
         /\ Len(out.res.values) = Len(out.res.x)
         /\ \A k \in DOMAIN out.res.x :
              \E i \in DOMAIN da.x : da.x[i] = out.res.x[k] /\ da.values[i] = out.res.values[k]
    /\ out.op = "isel_slice" =>
         /\ out.res.error = ""
         /\ Len(out.res.x) = Cardinality({p \in 0..(Len(da.x) - 1) : out.a <= p /\ p < out.b})
         /\ Len(out.res.values) = Len(out.res.x)
         /\ \A k \in DOMAIN out.res.x :
              /\ out.res.x[k] = da.x[out.a + k]
              /\ out.res.values[k] = da.values[out.a + k]

\* C8 witness: a label slice between two labels of the index, a < b, has
\* returned a run that ends with the element labelled b.
C8_Witness ==
    /\ out.op = "sel_slice"
    /\ out.a < out.b
    /\ \E i \in DOMAIN da.x : da.x[i] = out.a
    /\ \E i \in DOMAIN da.x : da.x[i] = out.b
    /\ Len(out.res.x) >= 3
    /\ out.res.x[1] = out.a
    /\ out.res.x[Len(out.res.x)] = out.b

(***************************************************************************)
(* The Argo float Dataset of the fundamentals notebook: the arrays loaded  *)
(* from the .npy files, the Dataset built from them, and the arithmetic    *)
(* and alignment cells that follow.                                        *)
(***************************************************************************)

\* Bounds of the loaded arrays: levels and dates of a profile grid, and the
\* seeds the three data grids are drawn from.
NLevels == 32
NDates == 2
MaxSeed == 2

\* A level x date grid of distinct values, numbered row by row from seed + 1.
Grid(seed) == [l \in 1..NLevels |-> [d \in 1..NDates |-> seed + NDates * (l - 1) + d]]

\* The arrays np.load returns: P, S, T on the level x date grid, the level
\* and date labels, and one lat and lon per date. The file of the levels is
\* pinned by the hash of the download; its labels are the depth indices
\* 0, 1, 2, ... that the cells select by (level 2, 5, 11, the slice 0..30).
Loaded ==
    {[P |-> Grid(p), S |-> Grid(s), T |-> Grid(t),
      levels |-> [l \in 1..NLevels |-> l - 1],
      date   |-> [d \in 1..NDates |-> d],
      lat    |-> [d \in 1..NDates |-> 30 + d],
      lon    |-> [d \in 1..NDates |-> 0 - (40 + d)]] :
        p \in 0..MaxSeed, s \in 0..MaxSeed, t \in 0..MaxSeed}

Coord(dims, values) == [dims |-> dims, values |-> values]

Remove(fn, k) == [x \in (DOMAIN fn) \ {k} |-> fn[x]]

\* xr.Dataset(data_vars={'salinity': (('level', 'date'), S), ...},
\*            coords={'level': levels, 'date': date})
Dataset(arrays) ==
    [data_vars |-> [salinity    |-> Coord(<<"level", "date">>, arrays.S),
                    temperature |-> Coord(<<"level", "date">>, arrays.T),
                    pressure    |-> Coord(<<"level", "date">>, arrays.P)],
     coords    |-> [level |-> Coord(<<"level">>, arrays.levels),
                    date  |-> Coord(<<"date">>, arrays.date)]]

\* ds.coords[name] = values: a bare array becomes a coordinate along a
\* dimension of its own name; (dim, values) names the dimension.
set_coord(dset, name, dims, values) ==
    [dset EXCEPT !.coords = Put(@, name, Coord(dims, values))]

\* del ds[name]
del_item(dset, name) ==
    [dset EXCEPT !.coords = Remove(@, name)]

Scale(matrix, k) == [l \in DOMAIN matrix |-> [d \in DOMAIN matrix[l] |-> matrix[l][d] * k]]

\* ds * k: Dataset arithmetic applies the operation to every data variable
\* and returns a new Dataset that carries the operand's coordinates; the
\* operand is left as it was.
dataset_mul_scales_coords(dset, k) ==
    [result |-> [data_vars |-> [v \in DOMAIN dset.data_vars |->
                                  Coord(dset.data_vars[v].dims, Scale(dset.data_vars[v].values, k))],
                 coords    |-> [c \in DOMAIN dset.coords |->
                                  Coord(dset.coords[c].dims,
                                        [i \in DOMAIN dset.coords[c].values |->
                                           dset.coords[c].values[i] * k])]],
     self   |-> dset]

dataset_mul(dset, k) ==
    [result |-> [data_vars |-> [v \in DOMAIN dset.data_vars |->
                                  Coord(dset.data_vars[v].dims, Scale(dset.data_vars[v].values, k))],
                 coords    |-> dset.coords],
     self   |-> dset]

\* ds.salinity: the variable with the Dataset's level and date coordinates.
salinity(dset) ==
    [level  |-> dset.coords.level.values,
     date   |-> dset.coords.date.values,
     values |-> dset.data_vars.salinity.values]

\* arr.isel(level=slice(i, j)): rows at positions i..j-1, counted from 0.
isel_level(arr, i, j) ==
    LET locs == Run1(Min(i, Len(arr.level)) + 1, Min(j, Len(arr.level)))
    IN [arr EXCEPT !.level  = [k \in DOMAIN locs |-> arr.level[locs[k]]],
                   !.values = [k \in DOMAIN locs |-> arr.values[locs[k]]]]

\* pandas Index.intersection: the labels of one index the other has too.
intersection(index1, index2) ==
    SelectSeq(index1, LAMBDA l : \E i \in DOMAIN index2 : index2[i] = l)

\* arr.reindex(level=labels) for labels the array has.
reindex(arr, labels) ==
    [arr EXCEPT !.level  = labels,
                !.values = [k \in DOMAIN labels |->
                              arr.values[CHOOSE i \in get_loc(arr.level, labels[k]) : TRUE]]]

\* The missing value. The loaded values are all positive, so the number
\* below stands for no number at all.
NaN == -1

isnan(v) == v = NaN

\* v * w on floats: a missing operand gives a missing product.
Times(v, w) == IF isnan(v) \/ isnan(w) THEN NaN ELSE v * w

\* a * b on two DataArrays: the operands are aligned on the shared level
\* dimension with an inner join, then multiplied element by element.
mul_by_position(a, b) ==
    LET n == Min(Len(a.level), Len(b.level))
    IN [level  |-> SubSeq(a.level, 1, n),
        date   |-> a.date,
        values |-> [k \in 1..n |-> [d \in DOMAIN a.date |-> a.values[k][d] * b.values[k][d]]]]

mul(a, b) ==
    LET joined == intersection(a.level, b.level)
        ra == reindex(a, joined)
        rb == reindex(b, joined)
    IN [level  |-> joined,
        date   |-> a.date,
        values |-> [k \in DOMAIN joined |->
                      [d \in DOMAIN a.date |-> Times(ra.values[k][d], rb.values[k][d])]]]

NoDataset == [data_vars |-> EmptyMap, coords |-> EmptyMap]

NoArray == [level |-> << >>, date |-> << >>, values |-> << >>]

NoResult == [cell |-> 0, ds |-> NoDataset, arr |-> NoArray, raised |-> ""]

ArgoInit ==
    /\ npy \in Loaded
    /\ apc = 40
    /\ argo = NoDataset
    /\ sa_surf = NoArray
    /\ sa_mid = NoArray
    /\ res = NoResult
    /\ sa_surf_outer = NoArray
    /\ sa_mid_outer = NoArray
    /\ sa_surf_mid = NoArray

\* argo = xr.Dataset(...)
Cell40 ==
    /\ apc = 40
    /\ argo' = Dataset(npy)
    /\ apc' = 42
    /\ UNCHANGED <<npy, sa_surf, sa_mid, res, combvars, nbvars, imgvars, idxvars, sstvars>>

\* argo.coords['lon'] = lon
Cell42 ==
    /\ apc = 42
    /\ argo' = set_coord(argo, "lon", <<"lon">>, npy.lon)
    /\ apc' = 44
    /\ UNCHANGED <<npy, sa_surf, sa_mid, res, combvars, nbvars, imgvars, idxvars, sstvars>>

\* del argo['lon']; argo.coords['lon'] = ('date', lon);
\* argo.coords['lat'] = ('date', lat)
Cell44 ==
    /\ apc = 44
    /\ argo' = set_coord(set_coord(del_item(argo, "lon"), "lon", <<"date">>, npy.lon),
                         "lat", <<"date">>, npy.lat)
    /\ apc' = 47
    /\ UNCHANGED <<npy, sa_surf, sa_mid, res, combvars, nbvars, imgvars, idxvars, sstvars>>

\* argo * 10000
Cell47 ==
    /\ apc = 47
    /\ res' = [cell |-> 47, ds |-> dataset_mul(argo, 10000).result, arr |-> NoArray,
               raised |-> ""]
    /\ argo' = dataset_mul(argo, 10000).self
    /\ apc' = 84
    /\ UNCHANGED <<npy, sa_surf, sa_mid, combvars, nbvars, imgvars, idxvars, sstvars>>

\* sa_surf = argo.salinity.isel(level=slice(0, 20))
\* sa_mid = argo.salinity.isel(level=slice(10, 30))
Cell84 ==
    /\ apc = 84
    /\ sa_surf' = isel_level(salinity(argo), 0, 20)
    /\ sa_mid' = isel_level(salinity(argo), 10, 30)
    /\ apc' = 86
    /\ UNCHANGED <<npy, argo, res, combvars, nbvars, imgvars, idxvars, sstvars>>

\* (sa_surf * sa_mid).level
Cell86 ==
    /\ apc = 86
    /\ res' = [cell |-> 86, ds |-> NoDataset, arr |-> mul(sa_surf, sa_mid),
               raised |-> ""]
    /\ apc' = 88
    /\ UNCHANGED <<npy, argo, sa_surf, sa_mid, combvars, nbvars, imgvars, idxvars, sstvars>>

(***************************************************************************)
(* Claims about the Dataset cells.                                         *)
(***************************************************************************)

\* C9: argo * 10000 multiplies every element of every data variable
\* (salinity, temperature, pressure) by 10000 and nothing else: the result
\* has the level, date, lon and lat coordinates with the values and
\* dimensions they have in argo, and argo itself still holds the loaded
\* arrays and coordinates.
C9_ArithmeticKeepsCoordinates ==
    res.cell = 47 =>
        /\ DOMAIN res.ds.data_vars = {"salinity", "temperature", "pressure"}
        /\ \A l \in 1..NLevels, d \in 1..NDates :
             /\ res.ds.data_vars.salinity.values[l][d] = npy.S[l][d] * 10000
             /\ res.ds.data_vars.temperature.values[l][d] = npy.T[l][d] * 10000
             /\ res.ds.data_vars.pressure.values[l][d] = npy.P[l][d] * 10000
        /\ DOMAIN res.ds.coords = {"level", "date", "lon", "lat"}
        /\ res.ds.coords.level = Coord(<<"level">>, npy.levels)
        /\ res.ds.coords.date = Coord(<<"date">>, npy.date)
        /\ res.ds.coords.lon = Coord(<<"date">>, npy.lon)
        /\ res.ds.coords.lat = Coord(<<"date">>, npy.lat)
        /\ res.ds.coords = argo.coords
        /\ argo.data_vars = Dataset(npy).data_vars

\* C9 witness: the cell argo * 10000 has run on a Dataset whose coordinates
\* are not all zero, so that scaling them would show.
C9_Witness ==
    /\ res.cell = 47
    /\ apc = 84
    /\ res.ds.coords.level.values[NLevels] > 0
    /\ res.ds.data_vars.salinity.values[1][1] = npy.S[1][1] * 10000

\* C10: the level coordinate of sa_surf * sa_mid is exactly the labels both
\* operands carry, the labels at positions 10..19 of the original array, in
\* order, and each element of the product is the product of the operands'
\* elements at that label.
C10_InnerJoinOnLevel ==
    res.cell = 86 =>
        /\ res.arr.level = [k \in 1..10 |-> npy.levels[10 + k]]
        /\ \A k \in DOMAIN res.arr.level :
             /\ \E i \in DOMAIN sa_surf.level : sa_surf.level[i] = res.arr.level[k]
             /\ \E j \in DOMAIN sa_mid.level : sa_mid.level[j] = res.arr.level[k]
             /\ \A i \in DOMAIN sa_surf.level, j \in DOMAIN sa_mid.level :
                  (sa_surf.level[i] = res.arr.level[k] /\ sa_mid.level[j] = res.arr.level[k])
                    => \A d \in 1..NDates :
                         res.arr.values[k][d] = sa_surf.values[i][d] * sa_mid.values[j][d]
        /\ \A i \in DOMAIN sa_surf.level :
             (\E j \in DOMAIN sa_mid.level : sa_mid.level[j] = sa_surf.level[i])
               => \E k \in DOMAIN res.arr.level : res.arr.level[k] = sa_surf.level[i]

\* C10 witness: the product cell has run on the two 20-level subsets, whose
\* rows at equal positions carry different labels.
C10_Witness ==
    /\ res.cell = 86
    /\ Len(sa_surf.level) = 20
    /\ Len(sa_mid.level) = 20
    /\ sa_surf.level[1] # sa_mid.level[1]
    /\ Len(res.arr.level) = 10


(***************************************************************************)
(* Aligning and combining the two subsets of salinity.                     *)
(***************************************************************************)

Elems(s) == {s[i] : i \in DOMAIN s}

\* pandas Index.union: every label of either index, once, in sorted order.
union(index1, index2) == SortedSeq(Elems(index1) \cup Elems(index2))

\* The index the aligned objects share, by the kind of join.
joined_index(join, index1, index2) ==
    CASE join = "inner" -> intersection(index1, index2)
      [] join = "outer" -> union(index1, index2)
      [] join = "left"  -> index1
      [] join = "right" -> index2

\* arr.reindex(level=labels, fill_value=fill_value): the row of a label the
\* array has, and a row of fill_value for a label it has not.
reindex_fill(arr, labels, fill_value) ==
    [arr EXCEPT !.level  = labels,
                !.values = [k \in DOMAIN labels |->
                              IF get_loc(arr.level, labels[k]) = {}
                              THEN [d \in DOMAIN arr.date |-> fill_value]
                              ELSE arr.values[CHOOSE i \in get_loc(arr.level, labels[k]) : TRUE]]]

\* xr.align(a, b, join=join): both objects on the joined index, missing
\* values filled with NaN.
align_ignores_join(a, b, join) ==
    <<reindex_fill(a, intersection(a.level, b.level), NaN),
      reindex_fill(b, intersection(a.level, b.level), NaN)>>

align(a, b, join) ==
    <<reindex_fill(a, joined_index(join, a.level, b.level), NaN),
      reindex_fill(b, joined_index(join, a.level, b.level), NaN)>>

\* sa_surf_outer, sa_mid_outer = xr.align(sa_surf, sa_mid, join='outer')
\* sa_surf_outer
Cell88 ==
    /\ apc = 88
    /\ sa_surf_outer' = align(sa_surf, sa_mid, "outer")[1]
    /\ sa_mid_outer' = align(sa_surf, sa_mid, "outer")[2]
    /\ res' = [cell |-> 88, ds |-> NoDataset, arr |-> align(sa_surf, sa_mid, "outer")[1],
               raised |-> ""]
    /\ apc' = 93
    /\ UNCHANGED <<npy, argo, sa_surf, sa_mid, sa_surf_mid, nbvars, imgvars, idxvars, sstvars>>

\* (sa_surf_outer * sa_mid_outer).level
Cell93 ==
    /\ apc = 93
    /\ res' = [cell |-> 93, ds |-> NoDataset, arr |-> mul(sa_surf_outer, sa_mid_outer),
               raised |-> ""]
    /\ apc' = 96
    /\ UNCHANGED <<npy, argo, sa_surf, sa_mid, combvars, nbvars, imgvars, idxvars, sstvars>>

\* xr.concat(objs, dim='level'): the rows of the objects one after another,
\* with the labels they carry. The labels are not compared.
RECURSIVE concat_drops_repeated(_)
concat_drops_repeated(objs) ==
    IF Len(objs) = 1 THEN objs[1]
    ELSE LET rest == concat_drops_repeated(Tail(objs))
             new == SelectSeq([k \in DOMAIN rest.level |-> k],
                              LAMBDA k : get_loc(objs[1].level, rest.level[k]) = {})
         IN [level  |-> objs[1].level \o [k \in DOMAIN new |-> rest.level[new[k]]],
             date   |-> objs[1].date,
             values |-> objs[1].values \o [k \in DOMAIN new |-> rest.values[new[k]]]]

RECURSIVE concat(_)
concat(objs) ==
    IF Len(objs) = 1 THEN objs[1]
    ELSE LET rest == concat(Tail(objs))
         IN [level  |-> objs[1].level \o rest.level,
             date   |-> objs[1].date,
             values |-> objs[1].values \o rest.values]

\* arr.sel(level=label): KeyError for a label the index has not; the rows
\* of every entry that carries the label otherwise. (One match drops the
\* level dimension in xarray; here it is a result of one row.)
sel_level(arr, label) ==
    LET locs == SortedSeq(get_loc(arr.level, label))
    IN IF locs = << >>
       THEN [raised |-> "KeyError", arr |-> NoArray]
       ELSE [raised |-> "",
             arr    |-> [level  |-> [k \in DOMAIN locs |-> arr.level[locs[k]]],
                         date   |-> arr.date,
                         values |-> [k \in DOMAIN locs |-> arr.values[locs[k]]]]]

\* sa_surf_mid = xr.concat([sa_surf, sa_mid], dim='level')
\* sa_surf_mid
Cell96 ==
    /\ apc = 96
    /\ sa_surf_mid' = concat(<<sa_surf, sa_mid>>)
    /\ res' = [cell |-> 96, ds |-> NoDataset, arr |-> concat(<<sa_surf, sa_mid>>),
               raised |-> ""]
    /\ apc' = 99
    /\ UNCHANGED <<npy, argo, sa_surf, sa_mid, sa_surf_outer, sa_mid_outer,
                   nbvars, imgvars, idxvars, sstvars>>

\* sa_surf_mid.level
Cell99 ==
    /\ apc = 99
    /\ res' = [cell |-> 99, ds |-> NoDataset,
               arr |-> [sa_surf_mid EXCEPT !.date = << >>, !.values = sa_surf_mid.level],
               raised |-> ""]
    /\ apc' = 100
    /\ UNCHANGED <<npy, argo, sa_surf, sa_mid, combvars, nbvars, imgvars, idxvars, sstvars>>

\* sa_surf_mid.sel(level=11)
Cell100 ==
    /\ apc = 100
    /\ res' = [cell |-> 100, ds |-> NoDataset, arr |-> sel_level(sa_surf_mid, 11).arr,
               raised |-> sel_level(sa_surf_mid, 11).raised]
    /\ apc' = 106
    /\ UNCHANGED <<npy, argo, sa_surf, sa_mid, combvars, nbvars, imgvars, idxvars, sstvars>>

\* ds.temperature: the variable with the Dataset's level and date coordinates.
temperature(dset) ==
    [level  |-> dset.coords.level.values,
     date   |-> dset.coords.date.values,
     values |-> dset.data_vars.temperature.values]

\* A DataArray with the name it has as a variable of a Dataset.
Named(name, arr) == [name |-> name, arr |-> arr]

\* arr.sel(level=slice(start, stop)): the rows whose labels lie between the
\* two, both included.
sel_level_slice(arr, start, stop) ==
    LET r == slice_locs(arr.level, start, stop)
        locs == Run1(r.first, r.last)
    IN [arr EXCEPT !.level  = [k \in DOMAIN locs |-> arr.level[locs[k]]],
                   !.values = [k \in DOMAIN locs |-> arr.values[locs[k]]]]

\* arr.sel(level=slice(start, None)): the rows from the label on, to the end.
sel_level_from(arr, start) ==
    LET locs == Run1(slice_locs(arr.level, start, start).first, Len(arr.level))
    IN [arr EXCEPT !.level  = [k \in DOMAIN locs |-> arr.level[locs[k]]],
                   !.values = [k \in DOMAIN locs |-> arr.values[locs[k]]]]

\* The index all the objects are aligned to.
RECURSIVE joined_all(_, _)
joined_all(join, indexes) ==
    IF Len(indexes) = 1 THEN indexes[1]
    ELSE joined_index(join, indexes[1], joined_all(join, Tail(indexes)))

\* xr.merge(objs, join=join): the objects are aligned on level with the
\* join, missing values filled with NaN, and each becomes a variable of the
\* Dataset under its name.
merge_inner_join(objs, join) ==
    LET index == joined_all("inner", [i \in DOMAIN objs |-> objs[i].arr.level])
    IN [data_vars |-> [n \in {objs[i].name : i \in DOMAIN objs} |->
                         LET o == objs[CHOOSE i \in DOMAIN objs : objs[i].name = n]
                         IN Coord(<<"level", "date">>, reindex_fill(o.arr, index, NaN).values)],
        coords    |-> [level |-> Coord(<<"level">>, index),
                       date  |-> Coord(<<"date">>, objs[1].arr.date)]]

merge(objs, join) ==
    LET index == joined_all(join, [i \in DOMAIN objs |-> objs[i].arr.level])
    IN [data_vars |-> [n \in {objs[i].name : i \in DOMAIN objs} |->
                         LET o == objs[CHOOSE i \in DOMAIN objs : objs[i].name = n]
                         IN Coord(<<"level", "date">>, reindex_fill(o.arr, index, NaN).values)],
        coords    |-> [level |-> Coord(<<"level">>, index),
                       date  |-> Coord(<<"date">>, objs[1].arr.date)]]

\* xr.merge([argo.salinity, argo.temperature])
Cell106 ==
    /\ apc = 106
    /\ res' = [cell |-> 106,
               ds |-> merge(<<Named("salinity", salinity(argo)),
                              Named("temperature", temperature(argo))>>, "outer"),
               arr |-> NoArray, raised |-> ""]
    /\ apc' = 108
    /\ UNCHANGED <<npy, argo, sa_surf, sa_mid, combvars, nbvars, imgvars, idxvars, sstvars>>

\* xr.merge([argo.salinity.sel(level=slice(0, 30)),
\*           argo.temperature.sel(level=slice(30, None))])
Cell108 ==
    /\ apc = 108
    /\ res' = [cell |-> 108,
               ds |-> merge(<<Named("salinity", sel_level_slice(salinity(argo), 0, 30)),
                              Named("temperature", sel_level_from(temperature(argo), 30))>>,
                            "outer"),
               arr |-> NoArray, raised |-> ""]
    /\ apc' = 109
    /\ UNCHANGED <<npy, argo, sa_surf, sa_mid, combvars, nbvars, imgvars, idxvars, sstvars>>

\* xr.merge([argo.salinity.sel(level=slice(0, 30)),
\*           argo.temperature.sel(level=slice(30, None))], join='left')
Cell109 ==
    /\ apc = 109
    /\ res' = [cell |-> 109,
               ds |-> merge(<<Named("salinity", sel_level_slice(salinity(argo), 0, 30)),
                              Named("temperature", sel_level_from(temperature(argo), 30))>>,
                            "left"),
               arr |-> NoArray, raised |-> ""]
    /\ apc' = 0
    /\ UNCHANGED <<npy, argo, sa_surf, sa_mid, combvars, nbvars, imgvars, idxvars, sstvars>>

ArgoNext ==
    \/ Cell40 \/ Cell42 \/ Cell44 \/ Cell47 \/ Cell84 \/ Cell86
    \/ Cell88 \/ Cell93 \/ Cell96 \/ Cell99 \/ Cell100
    \/ Cell106 \/ Cell108 \/ Cell109

(***************************************************************************)
(* Claims about aligning and combining.                                    *)
(***************************************************************************)

\* The rows of an aligned array are the rows of the array it was made from
\* at the labels that array has, and rows of NaN at the other labels.
FilledFrom(aligned, arr) ==
    \A k \in DOMAIN aligned.level :
        IF \E i \in DOMAIN arr.level : arr.level[i] = aligned.level[k]
        THEN \A i \in DOMAIN arr.level :
                 arr.level[i] = aligned.level[k] => aligned.values[k] = arr.values[i]
        ELSE \A d \in 1..NDates : isnan(aligned.values[k][d])

\* C11: xr.align(sa_surf, sa_mid, join='outer') gives two arrays that both
\* carry the union of the level labels, the labels at positions 0..29 of the
\* original array; a position whose label the input had holds the input's
\* value and an extended position holds NaN; the product of the two aligned
\* arrays has that union as its level coordinate.
C11_OuterAlignFillsNaN ==
    /\ apc > 88 =>
        /\ sa_surf_outer.level = [k \in 1..30 |-> npy.levels[k]]
        /\ sa_mid_outer.level = [k \in 1..30 |-> npy.levels[k]]
        /\ FilledFrom(sa_surf_outer, sa_surf)
        /\ FilledFrom(sa_mid_outer, sa_mid)
    /\ res.cell = 93 => res.arr.level = [k \in 1..30 |-> npy.levels[k]]

\* C11 witness: the product of the aligned arrays has been taken, sa_surf
\* was extended by ten rows of NaN at the end and sa_mid by ten at the
\* start, and the rows they had are kept.
C11_Witness ==
    /\ res.cell = 93
    /\ Len(res.arr.level) = 30
    /\ isnan(sa_surf_outer.values[21][1])
    /\ isnan(sa_mid_outer.values[10][1])
    /\ sa_surf_outer.values[20] = sa_surf.values[20]
    /\ sa_mid_outer.values[11] = sa_mid.values[1]

\* pandas Index.is_unique and Index.is_monotonic_increasing / _decreasing.
is_unique(index) == \A i, j \in DOMAIN index : index[i] = index[j] => i = j

is_monotonic(index) ==
    \/ \A i, j \in DOMAIN index : i < j => index[i] <= index[j]
    \/ \A i, j \in DOMAIN index : i < j => index[i] >= index[j]

\* C12: xr.concat([sa_surf, sa_mid], dim='level') sticks the inputs
\* together without looking at the labels: its level coordinate and its
\* rows are those of sa_surf followed by those of sa_mid, 20 + 20 long; each
\* label of the overlap (positions 10..19 of the original) appears twice;
\* the coordinate is neither unique nor monotonic; and sel(level=11) on the
\* result raises nothing and matches more than one entry.
C12_ConcatKeepsOverlap ==
    /\ apc > 96 =>
        /\ Len(sa_surf_mid.level) = 20 + 20
        /\ sa_surf_mid.level = sa_surf.level \o sa_mid.level
        /\ sa_surf_mid.values = sa_surf.values \o sa_mid.values
        /\ \A k \in 11..20 : Cardinality(get_loc(sa_surf_mid.level, npy.levels[k])) = 2
        /\ ~is_unique(sa_surf_mid.level)
        /\ ~is_monotonic(sa_surf_mid.level)
    /\ res.cell = 100 =>
        /\ res.raised = ""
        /\ Len(res.arr.level) > 1
        /\ \A k \in DOMAIN res.arr.level : res.arr.level[k] = 11

\* C12 witness: sel(level=11) has run on the concatenated array and found
\* the label in both halves, once from sa_surf and once from sa_mid.
C12_Witness ==
    /\ res.cell = 100
    /\ Len(res.arr.level) = 2
    /\ res.arr.values[1] = sa_surf.values[12]
    /\ res.arr.values[2] = sa_mid.values[2]

\* The row a merged variable holds at a label: the loaded row if the input
\* restricted to the labels lo..hi had the label, a row of NaN if not.
RowOrNaN(grid, label, lo, hi) ==
    IF lo <= label /\ label <= hi
    THEN grid[CHOOSE l \in 1..NLevels : npy.levels[l] = label]
    ELSE [d \in 1..NDates |-> NaN]

TopLabel == npy.levels[NLevels]

\* C13: xr.merge aligns its inputs before merging them and the join picks
\* the index. Salinity restricted to the levels 0..30 merged with
\* temperature restricted to the levels from 30 on gives, with the default
\* join, a Dataset on the union of the two inputs' labels, each variable
\* NaN at the labels its input had not; with join='left' it gives a Dataset
\* on exactly the labels of the first input, the levels 0..30.
C13_MergeAlignsFirst ==
    /\ res.cell = 108 =>
        /\ res.ds.coords.level.values =
             SortedSeq({l \in Elems(npy.levels) : (0 <= l /\ l <= 30) \/ l >= 30})
        /\ DOMAIN res.ds.data_vars = {"salinity", "temperature"}
        /\ \A k \in DOMAIN res.ds.coords.level.values :
             LET label == res.ds.coords.level.values[k]
             IN /\ res.ds.data_vars.salinity.values[k] = RowOrNaN(npy.S, label, 0, 30)
                /\ res.ds.data_vars.temperature.values[k] = RowOrNaN(npy.T, label, 30, TopLabel)
    /\ res.cell = 109 =>
        /\ res.ds.coords.level.values = SortedSeq({l \in Elems(npy.levels) : 0 <= l /\ l <= 30})
        /\ DOMAIN res.ds.data_vars = {"salinity", "temperature"}
        /\ \A k \in DOMAIN res.ds.coords.level.values :
             LET label == res.ds.coords.level.values[k]
             IN /\ res.ds.data_vars.salinity.values[k] = RowOrNaN(npy.S, label, 0, 30)
                /\ res.ds.data_vars.temperature.values[k] = RowOrNaN(npy.T, label, 30, TopLabel)

\* C13 witness: the merge with join='left' has run; the level coordinate
\* stops at the label 30, salinity has data at the label 0 where temperature
\* has NaN, and both have data at the label 30.
C13_Witness ==
    /\ res.cell = 109
    /\ TopLabel > 30
    /\ res.ds.coords.level.values[Len(res.ds.coords.level.values)] = 30
    /\ ~isnan(res.ds.data_vars.salinity.values[1][1])
    /\ isnan(res.ds.data_vars.temperature.values[1][1])
    /\ ~isnan(res.ds.data_vars.temperature.values[31][1])

(***************************************************************************)
(* The sea-surface temperature Dataset of the advanced notebook: monthly   *)
(* fields on a lat x lon grid, and the groupby, resample, rolling and      *)
(* coarsen cells.                                                          *)
(***************************************************************************)

\* Bounds of what the server delivers: the seeds the readings are drawn
\* from, and the months of data the server has after December 2022.
MaxReading == 6
MaxExtra == 2

\* A timestamp at midnight, written yyyymmdd.
Date(y, m, d) == y * 10000 + m * 100 + d

\* pandas .dt.year and .dt.month of a timestamp.
dt_year(t) == t \div 10000

dt_month(t) == (t \div 100) % 100

\* Exact fractions for the values: n / d in lowest terms with d > 0, and a
\* value of its own for NaN.
RECURSIVE GCD(_, _)
GCD(a, b) == IF b = 0 THEN a ELSE GCD(b, a % b)

Rat(n, d) == LET g == GCD(Abs(n), d) IN [n |-> n \div g, d |-> d \div g]

nan == [n |-> 0, d |-> 0]

RatAdd(a, b) == IF a = nan \/ b = nan THEN nan ELSE Rat(a.n * b.d + b.n * a.d, a.d * b.d)

RatSub(a, b) == IF a = nan \/ b = nan THEN nan ELSE Rat(a.n * b.d - b.n * a.d, a.d * b.d)

RatDiv(a, k) == IF a = nan THEN nan ELSE Rat(a.n, a.d * k)

\* The sum of s[first..last], taken by halves.
RECURSIVE RatSum(_, _, _)
RatSum(s, first, last) ==
    IF last < first THEN Rat(0, 1)
    ELSE IF first = last THEN s[first]
    ELSE LET mid == (first + last) \div 2
         IN RatAdd(RatSum(s, first, mid), RatSum(s, mid + 1, last))

\* mean(skipna=True) of a sequence of values: the mean of those that are
\* not NaN, and NaN if there is none.
Mean(s) ==
    LET valid == SelectSeq(s, LAMBDA v : v # nan)
    IN IF valid = << >> THEN nan ELSE RatDiv(RatSum(valid, 1, Len(valid)), Len(valid))

\* The mean of lat x lon fields, point by point.
MeanField(fields) ==
    [i \in DOMAIN fields[1] |-> [j \in DOMAIN fields[1][i] |->
        Mean([k \in DOMAIN fields |-> fields[k][i][j]])]]

SubField(a, b) == [i \in DOMAIN a |-> [j \in DOMAIN a[i] |-> RatSub(a[i][j], b[i][j])]]

\* The dataset goes back to 1854 and has one field per month.
FirstYear == 1854

MonthStart(k) == Date(FirstYear + (k \div 12), (k % 12) + 1, 1)

\* The reading of a month at a grid point.
Reading(seed, k, i, j) == (k * k + 3 * seed + 5 * i + 11 * j) % 29

\* What the server can deliver: the months from January 1854 to the month
\* of the request, which is December 2022 or later, on a grid that has the
\* points the cells select.
Remote ==
    {[kind |-> "Dataset",
      time |-> [k \in 1..(12 * (2022 - FirstYear + 1) + extra) |-> MonthStart(k - 1)],
      lat  |-> <<50, -50>>,
      lon  |-> <<0, 300>>,
      sst  |-> [k \in 1..(12 * (2022 - FirstYear + 1) + extra) |->
                 [i \in 1..2 |-> [j \in 1..2 |-> Rat(Reading(seed, k, i, j), 1)]]]] :
        seed \in 0..MaxReading, extra \in 0..MaxExtra}

NoObject == [kind |-> "", time |-> << >>, lat |-> << >>, lon |-> << >>, sst |-> << >>]

\* ds.sst: the variable as a DataArray with the coordinates of the Dataset.
sst(dset) == [dset EXCEPT !.kind = "DataArray"]

\* obj.isel(time=locs)
isel_time(obj, locs) ==
    [obj EXCEPT !.time = [k \in DOMAIN locs |-> obj.time[locs[k]]],
                !.sst  = [k \in DOMAIN locs |-> obj.sst[locs[k]]]]

\* obj.sel(time=slice('first', 'last')) with two years: a year as a string
\* stands for all of it, from its 1 January to its 31 December.
sel_years(obj, first, last) ==
    LET r == slice_locs(obj.time, Date(first, 1, 1), Date(last, 12, 31))
    IN isel_time(obj, Run1(r.first, r.last))

\* obj.sel(lon=lon, lat=lat): the series at one grid point, which keeps
\* the point's lon and lat as scalar coordinates; KeyError for a label the
\* grid has not.
sel_point(obj, lon, lat) ==
    IF get_loc(obj.lon, lon) = {} \/ get_loc(obj.lat, lat) = {}
    THEN [raised |-> "KeyError", lon |-> lon, lat |-> lat, values |-> << >>]
    ELSE LET i == CHOOSE i \in get_loc(obj.lat, lat) : TRUE
             j == CHOOSE j \in get_loc(obj.lon, lon) : TRUE
         IN [raised |-> "", lon |-> obj.lon[j], lat |-> obj.lat[i],
             values |-> [k \in DOMAIN obj.sst |-> obj.sst[k][i][j]]]

\* obj.time.dt.<field>: the component of every timestamp, as an array
\* named after the component.
time_dt(obj, field) ==
    [name   |-> field,
     values |-> [k \in DOMAIN obj.time |->
                   CASE field = "month" -> dt_month(obj.time[k])
                     [] field = "year"  -> dt_year(obj.time[k])]]

\* A group given by name: 'time.month' is split at the dot into the
\* variable time and its component month.
split_takes_year(key) ==
    CASE key = "time.month" -> [ref |-> "time", var |-> "year"]
      [] key = "time.year"  -> [ref |-> "time", var |-> "year"]

split(key) ==
    CASE key = "time.month" -> [ref |-> "time", var |-> "month"]
      [] key = "time.year"  -> [ref |-> "time", var |-> "year"]

virtual_variable(obj, key) ==
    IF split(key).ref = "time" THEN time_dt(obj, split(key).var)
    ELSE [name |-> key, values |-> << >>]

\* obj.groupby(group) with group an array along time: the sorted unique
\* values of the group are the keys, and each key has the positions of the
\* time steps that carry it, in order.
groupby_array(obj, group) ==
    LET unique == SortedSeq(Elems(group.values))
    IN [obj     |-> obj,
        name    |-> group.name,
        group   |-> group.values,
        unique  |-> unique,
        indices |-> [g \in DOMAIN unique |->
                       SelectSeq([k \in DOMAIN group.values |-> k],
                                 LAMBDA k : group.values[k] = unique[g])]]

\* obj.groupby('time.month')
groupby_name(obj, key) == groupby_array(obj, virtual_variable(obj, key))

NoGroupBy == [obj |-> NoObject, name |-> "", group |-> << >>, unique |-> << >>, indices |-> << >>]

\* iter(gb): one (key, group) pair per key, in the order of the keys.
iter_skips_first(grouped) ==
    [g \in 1..(Len(grouped.unique) - 1) |->
        [name |-> grouped.unique[g + 1], group |-> isel_time(grouped.obj, grouped.indices[g + 1])]]

iter(grouped) ==
    [g \in DOMAIN grouped.unique |->
        [name |-> grouped.unique[g], group |-> isel_time(grouped.obj, grouped.indices[g])]]

\* a.mean(dim='time'): one field, and no time dimension.
time_mean(a) == [kind |-> a.kind, lat |-> a.lat, lon |-> a.lon, sst |-> MeanField(a.sst)]

\* x - x.mean(dim='time'): the mean field is taken from every time step.
remove_time_mean(x) ==
    LET m == MeanField(x.sst)
    IN [x EXCEPT !.sst = [k \in DOMAIN x.sst |-> SubField(x.sst[k], m)]]

RECURSIVE Flatten(_)
Flatten(seqs) == IF seqs = << >> THEN << >> ELSE Head(seqs) \o Flatten(Tail(seqs))

\* The combine step for results that have lost the time dimension: they
\* are stacked along a new dimension named after the group, labelled by
\* the keys.
combine_reduced(grouped, applied) ==
    [kind  |-> grouped.obj.kind,
     dim   |-> grouped.name,
     index |-> grouped.unique,
     lat   |-> grouped.obj.lat,
     lon   |-> grouped.obj.lon,
     sst   |-> [g \in DOMAIN applied |-> applied[g].sst]]

\* The combine step for results that kept the time dimension: they are
\* concatenated group after group and then put back in the order the time
\* steps had in the object that was grouped.
combine_in_group_order(grouped, applied) ==
    [grouped.obj EXCEPT !.time = Flatten([g \in DOMAIN applied |-> applied[g].time]),
                        !.sst  = Flatten([g \in DOMAIN applied |-> applied[g].sst])]

combine_transformed(grouped, applied) ==
    LET positions == Flatten(grouped.indices)
        times == Flatten([g \in DOMAIN applied |-> applied[g].time])
        fields == Flatten([g \in DOMAIN applied |-> applied[g].sst])
        inverse == [k \in DOMAIN positions |-> CHOOSE p \in DOMAIN positions : positions[p] = k]
    IN [grouped.obj EXCEPT !.time = [k \in DOMAIN positions |-> times[inverse[k]]],
                           !.sst  = [k \in DOMAIN positions |-> fields[inverse[k]]]]

combine(grouped, applied) ==
    IF "time" \in DOMAIN applied[1]
    THEN combine_transformed(grouped, applied)
    ELSE combine_reduced(grouped, applied)

\* func(a) for a function the cells pass by name.
call(func, a) ==
    CASE func = "time_mean"        -> time_mean(a)
      [] func = "remove_time_mean" -> remove_time_mean(a)

\* gb.map(func): func applied to every group, and the results combined.
groupby_map(grouped, func) ==
    combine(grouped, [g \in DOMAIN grouped.unique |-> call(func, iter(grouped)[g].group)])

\* gb.mean(dim='time')
groupby_mean(grouped) == groupby_map(grouped, "time_mean")

\* gb - other, other labelled by the keys: every time step minus the field
\* other has at the key of the step's group.
groupby_sub(grouped, other) ==
    [grouped.obj EXCEPT !.sst =
        [k \in DOMAIN grouped.obj.sst |->
            SubField(grouped.obj.sst[k],
                     other.sst[CHOOSE g \in get_loc(other.index, grouped.group[k]) : TRUE])]]

NaNField(obj) == [i \in DOMAIN obj.lat |-> [j \in DOMAIN obj.lon |-> nan]]

\* The mean of the fields of a window that needs all its values: NaN at a
\* point where one of them is NaN.
WindowMean(obj, first, last) ==
    [i \in DOMAIN obj.lat |-> [j \in DOMAIN obj.lon |->
        IF \E k \in first..last : obj.sst[k][i][j] = nan THEN nan
        ELSE Mean([k \in 1..(last - first + 1) |-> obj.sst[first + k - 1][i][j]])]]

\* obj.rolling(time=window, center=center).mean(): every time step keeps
\* its place and gets the mean of the window around it (centred: window
\* div 2 steps before it to the rest after it), or NaN where the window
\* reaches over an end of the series.
rolling_mean_valid_only(obj, window, center) ==
    LET back == IF center THEN window \div 2 ELSE window - 1
        kept == SelectSeq([k \in DOMAIN obj.time |-> k],
                          LAMBDA k : k - back >= 1 /\ k - back + window - 1 <= Len(obj.time))
    IN [obj EXCEPT !.time = [k \in DOMAIN kept |-> obj.time[kept[k]]],
                   !.sst  = [k \in DOMAIN kept |->
                               WindowMean(obj, kept[k] - back, kept[k] - back + window - 1)]]

rolling_mean(obj, window, center) ==
    LET back == IF center THEN window \div 2 ELSE window - 1
    IN [obj EXCEPT !.sst = [k \in DOMAIN obj.time |->
                              IF k - back >= 1 /\ k - back + window - 1 <= Len(obj.time)
                              THEN WindowMean(obj, k - back, k - back + window - 1)
                              ELSE NaNField(obj)]]

\* obj.resample(time='<every>YE').mean(dim='time'): bins that end on a
\* 31 December, every <every> years, the first edge <every> year ends
\* before the first time step; each bin is labelled by its end and holds
\* the mean of the time steps after the previous end up to its own, NaN
\* if it has none.
BinYear(y, origin, every) == origin + every * ((y - origin + every - 1) \div every)

resample_mean(obj, every) ==
    LET origin == dt_year(obj.time[1]) - every
        first == BinYear(dt_year(obj.time[1]), origin, every)
        last == BinYear(dt_year(obj.time[Len(obj.time)]), origin, every)
        bins == [b \in 1..((last - first) \div every + 1) |-> first + every * (b - 1)]
        members(b) == SelectSeq([k \in DOMAIN obj.time |-> k],
                                LAMBDA k : BinYear(dt_year(obj.time[k]), origin, every) = bins[b])
    IN [obj EXCEPT !.time = [b \in DOMAIN bins |-> Date(bins[b], 12, 31)],
                   !.sst  = [b \in DOMAIN bins |->
                               LET m == members(b)
                               IN IF m = << >> THEN NaNField(obj)
                                  ELSE MeanField([k \in DOMAIN m |-> obj.sst[m[k]]])]]

\* obj.coarsen(time=window, boundary=boundary).mean(): blocks of window
\* consecutive time steps, counted from the first, whatever their
\* timestamps. 'exact' raises ValueError if the blocks do not use up the
\* series, 'trim' drops the steps left over, 'pad' fills the last block
\* with NaN. The time of a block is the mean of its timestamps; the model
\* keeps the timestamps of the block in its place.
coarsen_mean_from_second(obj, window, boundary) ==
    LET n == Len(obj.time)
        blocks == (n - 1) \div window
        block(b) == Run1((b - 1) * window + 2, b * window + 1)
    IN [raised |-> "",
        obj |-> [obj EXCEPT !.time = [b \in 1..blocks |->
                                        [k \in 1..window |-> obj.time[block(b)[k]]]],
                            !.sst  = [b \in 1..blocks |->
                                        MeanField([k \in 1..window |-> obj.sst[block(b)[k]]])]]]

coarsen_mean(obj, window, boundary) ==
    LET n == Len(obj.time)
        blocks == IF boundary = "pad" THEN (n + window - 1) \div window ELSE n \div window
        block(b) == Run1((b - 1) * window + 1, Min(b * window, n))
    IN IF boundary = "exact" /\ n % window # 0
       THEN [raised |-> "ValueError", obj |-> NoObject]
       ELSE [raised |-> "",
             obj |-> [obj EXCEPT !.time = [b \in 1..blocks |->
                                             [k \in DOMAIN block(b) |-> obj.time[block(b)[k]]]],
                                 !.sst  = [b \in 1..blocks |->
                                             MeanField([k \in DOMAIN block(b) |->
                                                          obj.sst[block(b)[k]]])]]]

NoShown == [c \in {} |-> 0]

SstInit ==
    /\ spc = 35
    /\ ds = NoObject
    /\ gb = NoGroupBy
    /\ group_name = 0
    /\ group_da = NoObject
    /\ sst_mm = NoObject
    /\ ds_anom = NoObject
    /\ ds_anom_resample = NoObject
    /\ ds_anom_rolling = NoObject
    /\ shown = NoShown
    /\ plotted = NoShown

\* url = '...'; ds = xr.open_dataset(url, drop_variables=['time_bnds'])
AdvCell35 ==
    /\ spc = 35
    /\ \E r \in Remote : ds' = r
    /\ spc' = 36
    /\ UNCHANGED <<gb, group_name, group_da, sst_mm, ds_anom, ds_anom_resample,
                   ds_anom_rolling, shown, plotted, nbvars, imgvars, idxvars, argovars>>

\* ds = ds.sel(time=slice('1960', '2022')); ds
AdvCell36 ==
    /\ spc = 36
    /\ ds' = sel_years(ds, 1960, 2022)
    /\ shown' = Put(shown, 36, ds')
    /\ spc' = 40
    /\ UNCHANGED <<gb, group_name, group_da, sst_mm, ds_anom, ds_anom_resample,
                   ds_anom_rolling, plotted, nbvars, imgvars, idxvars, argovars>>

\* ds.sst.sel(lon=300, lat=50).plot()
AdvCell40 ==
    /\ spc = 40
    /\ plotted' = Put(plotted, 40, <<sel_point(sst(ds), 300, 50)>>)
    /\ spc' = 49
    /\ UNCHANGED <<ds, gb, group_name, group_da, sst_mm, ds_anom, ds_anom_resample,
                   ds_anom_rolling, shown, nbvars, imgvars, idxvars, argovars>>

\* gb = ds.sst.groupby(ds.time.dt.month); gb
AdvCell49 ==
    /\ spc = 49
    /\ gb' = groupby_array(sst(ds), time_dt(ds, "month"))
    /\ shown' = Put(shown, 49, gb')
    /\ spc' = 51
    /\ UNCHANGED <<ds, group_name, group_da, sst_mm, ds_anom, ds_anom_resample,
                   ds_anom_rolling, plotted, nbvars, imgvars, idxvars, argovars>>

\* gb = ds.sst.groupby('time.month'); gb
AdvCell51 ==
    /\ spc = 51
    /\ gb' = groupby_name(sst(ds), "time.month")
    /\ shown' = Put(shown, 51, gb')
    /\ spc' = 53
    /\ UNCHANGED <<ds, group_name, group_da, sst_mm, ds_anom, ds_anom_resample,
                   ds_anom_rolling, plotted, nbvars, imgvars, idxvars, argovars>>

\* for group_name, group_da in gb: print(group_name); break
\* group_da
AdvCell53 ==
    /\ spc = 53
    /\ IF iter(gb) = << >>
       THEN UNCHANGED <<group_name, group_da, shown>>
       ELSE /\ group_name' = iter(gb)[1].name
            /\ group_da' = iter(gb)[1].group
            /\ shown' = Put(shown, 53, group_da')
    /\ spc' = 60
    /\ UNCHANGED <<ds, gb, sst_mm, ds_anom, ds_anom_resample,
                   ds_anom_rolling, plotted, nbvars, imgvars, idxvars, argovars>>

\* sst_mm = gb.mean(dim='time'); sst_mm
AdvCell60 ==
    /\ spc = 60
    /\ sst_mm' = groupby_mean(gb)
    /\ shown' = Put(shown, 60, sst_mm')
    /\ spc' = 64
    /\ UNCHANGED <<ds, gb, group_name, group_da, ds_anom, ds_anom_resample,
                   ds_anom_rolling, plotted, nbvars, imgvars, idxvars, argovars>>

\* def time_mean(a): return a.mean(dim='time')
\* sst_mm = gb.map(time_mean); sst_mm
AdvCell64 ==
    /\ spc = 64
    /\ sst_mm' = groupby_map(gb, "time_mean")
    /\ shown' = Put(shown, 64, sst_mm')
    /\ spc' = 66
    /\ UNCHANGED <<ds, gb, group_name, group_da, ds_anom, ds_anom_resample,
                   ds_anom_rolling, plotted, nbvars, imgvars, idxvars, argovars>>

\* sst_mm.sel(lon=300, lat=-50).plot()
AdvCell66 ==
    /\ spc = 66
    /\ plotted' = Put(plotted, 66, <<sel_point(sst_mm, 300, -50)>>)
    /\ spc' = 73
    /\ UNCHANGED <<ds, gb, group_name, group_da, sst_mm, ds_anom, ds_anom_resample,
                   ds_anom_rolling, shown, nbvars, imgvars, idxvars, argovars>>

\* def remove_time_mean(x): return x - x.mean(dim='time')
\* ds_anom = ds.groupby('time.month').map(remove_time_mean); ds_anom
AdvCell73 ==
    /\ spc = 73
    /\ ds_anom' = groupby_map(groupby_name(ds, "time.month"), "remove_time_mean")
    /\ shown' = Put(shown, 73, ds_anom')
    /\ spc' = 75
    /\ UNCHANGED <<ds, gb, group_name, group_da, sst_mm, ds_anom_resample,
                   ds_anom_rolling, plotted, nbvars, imgvars, idxvars, argovars>>

\* gb = ds.groupby('time.month'); ds_anom = gb - gb.mean(dim='time'); ds_anom
AdvCell75 ==
    /\ spc = 75
    /\ gb' = groupby_name(ds, "time.month")
    /\ ds_anom' = groupby_sub(gb', groupby_mean(gb'))
    /\ shown' = Put(shown, 75, ds_anom')
    /\ spc' = 77
    /\ UNCHANGED <<ds, group_name, group_da, sst_mm, ds_anom_resample,
                   ds_anom_rolling, plotted, nbvars, imgvars, idxvars, argovars>>

\* ds_anom.sst.sel(lon=300, lat=50).plot()
AdvCell77 ==
    /\ spc = 77
    /\ plotted' = Put(plotted, 77, <<sel_point(sst(ds_anom), 300, 50)>>)
    /\ spc' = 83
    /\ UNCHANGED <<ds, gb, group_name, group_da, sst_mm, ds_anom, ds_anom_resample,
                   ds_anom_rolling, shown, nbvars, imgvars, idxvars, argovars>>

\* ds_anom_resample = ds_anom.resample(time='5YE').mean(dim='time')
\* ds_anom_resample
AdvCell83 ==
    /\ spc = 83
    /\ ds_anom_resample' = resample_mean(ds_anom, 5)
    /\ shown' = Put(shown, 83, ds_anom_resample')
    /\ spc' = 84
    /\ UNCHANGED <<ds, gb, group_name, group_da, sst_mm, ds_anom,
                   ds_anom_rolling, plotted, nbvars, imgvars, idxvars, argovars>>

\* ds_anom.sst.sel(lon=300, lat=50).plot()
\* ds_anom_resample.sst.sel(lon=300, lat=50).plot(marker='o')
AdvCell84 ==
    /\ spc = 84
    /\ plotted' = Put(plotted, 84, <<sel_point(sst(ds_anom), 300, 50),
                                     sel_point(sst(ds_anom_resample), 300, 50)>>)
    /\ spc' = 88
    /\ UNCHANGED <<ds, gb, group_name, group_da, sst_mm, ds_anom, ds_anom_resample,
                   ds_anom_rolling, shown, nbvars, imgvars, idxvars, argovars>>

\* ds_anom_rolling = ds_anom.rolling(time=12, center=True).mean()
\* ds_anom_rolling
AdvCell88 ==
    /\ spc = 88
    /\ ds_anom_rolling' = rolling_mean(ds_anom, 12, TRUE)
    /\ shown' = Put(shown, 88, ds_anom_rolling')
    /\ spc' = 89
    /\ UNCHANGED <<ds, gb, group_name, group_da, sst_mm, ds_anom, ds_anom_resample,
                   plotted, nbvars, imgvars, idxvars, argovars>>

\* ds_anom.sst.sel(lon=300, lat=50).plot(label='monthly anom')
\* ds_anom_resample.sst.sel(lon=300, lat=50).plot(marker='o', ...)
\* ds_anom_rolling.sst.sel(lon=300, lat=50).plot(...)
AdvCell89 ==
    /\ spc = 89
    /\ plotted' = Put(plotted, 89, <<sel_point(sst(ds_anom), 300, 50),
                                     sel_point(sst(ds_anom_resample), 300, 50),
                                     sel_point(sst(ds_anom_rolling), 300, 50)>>)
    /\ spc' = 92
    /\ UNCHANGED <<ds, gb, group_name, group_da, sst_mm, ds_anom, ds_anom_resample,
                   ds_anom_rolling, shown, nbvars, imgvars, idxvars, argovars>>

\* ds.coarsen(time=12, boundary = 'exact').mean()
AdvCell92 ==
    /\ spc = 92
    /\ shown' = Put(shown, 92, coarsen_mean(ds, 12, "exact"))
    /\ spc' = 0
    /\ UNCHANGED <<ds, gb, group_name, group_da, sst_mm, ds_anom, ds_anom_resample,
                   ds_anom_rolling, plotted, nbvars, imgvars, idxvars, argovars>>

SstNext ==
    \/ AdvCell35 \/ AdvCell36 \/ AdvCell40 \/ AdvCell49 \/ AdvCell51 \/ AdvCell53
    \/ AdvCell60 \/ AdvCell64 \/ AdvCell66 \/ AdvCell73 \/ AdvCell75 \/ AdvCell77
    \/ AdvCell83 \/ AdvCell84 \/ AdvCell88 \/ AdvCell89 \/ AdvCell92

(***************************************************************************)
(* Claims about the sea-surface temperature cells.                         *)
(***************************************************************************)

Ran(c) == c \in DOMAIN shown

C15_GroupsPartitionTime ==
    /\ gb # NoGroupBy =>
        /\ Len(Flatten(gb.indices)) = Len(ds.time)
        /\ Elems(Flatten(gb.indices)) = DOMAIN ds.time
        /\ \A g \in DOMAIN gb.indices : \A p \in DOMAIN gb.indices[g] :
             dt_month(ds.time[gb.indices[g][p]]) = gb.unique[g]
        /\ Elems(gb.unique) = {dt_month(ds.time[k]) : k \in DOMAIN ds.time}
        /\ gb.unique = [m \in 1..12 |-> m]
        /\ Len(iter(gb)) = Len(gb.unique)
        /\ \A g \in DOMAIN gb.unique :
             /\ iter(gb)[g].name = gb.unique[g]
             /\ \A h \in DOMAIN gb.unique : iter(gb)[h].name = iter(gb)[g].name => h = g
    /\ spc = 60 =>
        /\ group_name = gb.unique[1]
        /\ group_da.time = [p \in DOMAIN gb.indices[1] |-> ds.time[gb.indices[1][p]]]
        /\ group_da.sst = [p \in DOMAIN gb.indices[1] |-> ds.sst[gb.indices[1][p]]]
    /\ sst_mm # NoObject => sst_mm.index = gb.unique /\ Len(sst_mm.sst) = Len(gb.unique)
    /\ ds_anom # NoObject => ds_anom.time = ds.time

\* C15 witness: the loop cell has kept the first pair, the key 1 with the
\* 63 Januaries, and later the anomalies have been put together from the
\* twelve groups.
C15_Witness ==
    /\ ds_anom # NoObject
    /\ group_name = 1
    /\ Len(group_da.time) = 63
    /\ group_da.time[2] = Date(1961, 1, 1)
    /\ Len(ds_anom.time) = 756

\* The sum of the readings of ds at a grid point over the time steps first
\* to last that fall in a month.
RECURSIVE MonthTotal(_, _, _, _, _)
MonthTotal(m, i, j, first, last) ==
    IF last < first THEN 0
    ELSE IF first = last
         THEN (IF dt_month(ds.time[first]) = m THEN ds.sst[first][i][j].n ELSE 0)
    ELSE LET mid == (first + last) \div 2
         IN MonthTotal(m, i, j, first, mid) + MonthTotal(m, i, j, mid + 1, last)

MonthCount(m) == Cardinality({k \in DOMAIN ds.time : dt_month(ds.time[k]) = m})

\* C16: ds.groupby('time.month').map(remove_time_mean) has the time, lat
\* and lon of ds, each of the same length, and at every time step and grid
\* point the value of ds minus the mean of ds at that point over all the
\* time steps of the same calendar month.
C16_AnomalyKeepsSize ==
    Ran(73) =>
        /\ shown[73].time = ds.time
        /\ shown[73].lat = ds.lat
        /\ shown[73].lon = ds.lon
        /\ Len(shown[73].sst) = Len(ds.sst)
        /\ spc = 75 =>
             \A m \in 1..12, i \in DOMAIN ds.lat, j \in DOMAIN ds.lon :
                LET total == MonthTotal(m, i, j, 1, Len(ds.time))
                    count == MonthCount(m)
                IN \A k \in DOMAIN ds.time :
                     dt_month(ds.time[k]) = m =>
                        LET v == shown[73].sst[k][i][j]
                        IN /\ v.d > 0
                           /\ v.n * count = (ds.sst[k][i][j].n * count - total) * v.d

\* C16 witness: the anomaly cell has run on the 756 months, and there is a
\* reading that differs from the mean of its month.
C16_Witness ==
    /\ spc = 75
    /\ Ran(73)
    /\ Len(shown[73].time) = 756
    /\ \E k \in 1..12 : shown[73].sst[k][1][1].n # 0

\* C17: ds_anom.rolling(time=12, center=True).mean() has the time
\* coordinate of ds_anom, of the same length and in the same order, while
\* the time coordinate of the resampled anomalies has another length than
\* that of ds_anom.
C17_RollingKeepsLength ==
    /\ Ran(88) =>
        /\ ds_anom_rolling.time = ds_anom.time
        /\ Len(ds_anom_rolling.sst) = Len(ds_anom.sst)
    /\ Ran(83) => Len(ds_anom_resample.time) # Len(ds_anom.time)

\* C17 witness: the rolling cell has run after the resample cell; the
\* rolling means are NaN where the window reaches over an end and numbers
\* in between, on all 756 months, and the resampled series has 14 steps.
C17_Witness ==
    /\ Ran(88) /\ Ran(83)
    /\ Len(ds_anom_rolling.time) = 756
    /\ ds_anom_rolling.sst[6][1][1] = nan
    /\ ds_anom_rolling.sst[7][1][1] # nan
    /\ ds_anom_rolling.sst[751][1][1] # nan
    /\ ds_anom_rolling.sst[752][1][1] = nan
    /\ Len(ds_anom_resample.time) = 14

\* C18: on ds restricted to 1960-2022, whose months start in January,
\* ds.coarsen(time=12, boundary='exact').mean() raises nothing, the number
\* of time steps being a multiple of 12; its blocks are the time steps
\* taken twelve by twelve by position, each block is the twelve months of
\* one calendar year, and the block means are the means annual resampling
\* gives, year by year.
C18_CoarsenIsAnnualResample ==
    Ran(92) =>
        /\ Len(ds.time) % 12 = 0
        /\ shown[92].raised = ""
        /\ Len(shown[92].obj.time) * 12 = Len(ds.time)
        /\ \A b \in DOMAIN shown[92].obj.time :
             /\ shown[92].obj.time[b] = [k \in 1..12 |-> ds.time[(b - 1) * 12 + k]]
             /\ \A k \in 1..12 :
                  /\ dt_month(shown[92].obj.time[b][k]) = k
                  /\ dt_year(shown[92].obj.time[b][k]) = dt_year(shown[92].obj.time[b][1])
        /\ Len(resample_mean(ds, 1).time) = Len(shown[92].obj.time)
        /\ \A b \in DOMAIN shown[92].obj.time :
             /\ dt_year(resample_mean(ds, 1).time[b]) = dt_year(shown[92].obj.time[b][1])
             /\ resample_mean(ds, 1).sst[b] = shown[92].obj.sst[b]

\* C18 witness: the coarsen cell has run and made 63 blocks, the first the
\* year 1960 and the last the year 2022, with a mean that is a number.
C18_Witness ==
    /\ Ran(92)
    /\ Len(shown[92].obj.time) = 63
    /\ dt_year(shown[92].obj.time[1][12]) = 1960
    /\ dt_year(shown[92].obj.time[63][1]) = 2022
    /\ shown[92].obj.sst[63][1][1] # nan

\* C19: the climatology cell, captioned as a point in the North Atlantic,
\* selects from sst_mm the grid point the other single-point cells select,
\* lon=300 and lat=50 in the northern hemisphere.
C19_ClimatologyAtNorthAtlanticPoint ==
    66 \in DOMAIN plotted =>
        /\ plotted[66][1].lon = plotted[40][1].lon
        /\ plotted[66][1].lat = plotted[40][1].lat
        /\ plotted[66][1].lat > 0

(***************************************************************************)
(* The specifications.  Each starts the variables of the others at rest,   *)
(* where its actions leave them.                                           *)
(***************************************************************************)

IdleImage == ImgInit

IdleIndex == da = f /\ out = NoOut

IdleArgo ==
    /\ npy = CHOOSE a \in Loaded : TRUE
    /\ apc = 0 /\ argo = NoDataset /\ sa_surf = NoArray /\ sa_mid = NoArray
    /\ res = NoResult
    /\ sa_surf_outer = NoArray /\ sa_mid_outer = NoArray /\ sa_surf_mid = NoArray

IdleSst ==
    /\ spc = 0 /\ ds = NoObject /\ gb = NoGroupBy /\ group_name = 0 /\ group_da = NoObject
    /\ sst_mm = NoObject /\ ds_anom = NoObject /\ ds_anom_resample = NoObject
    /\ ds_anom_rolling = NoObject /\ shown = NoShown /\ plotted = NoShown

Init == NbInit /\ IdleImage /\ IdleIndex /\ IdleArgo /\ IdleSst

Next == RenderMarkdown \/ RunCell

Spec == Init /\ [][Next]_vars

InitImage == ImgInit /\ IdleKernel /\ IdleIndex /\ IdleArgo /\ IdleSst

SpecImage == InitImage /\ [][ImgNext]_vars

InitIndex == IdxInit /\ IdleKernel /\ IdleImage /\ IdleArgo /\ IdleSst

SpecIndex == InitIndex /\ [][IdxNext]_vars

InitArgo == ArgoInit /\ IdleKernel /\ IdleImage /\ IdleIndex /\ IdleSst

SpecArgo == InitArgo /\ [][ArgoNext]_vars

InitSst == SstInit /\ IdleKernel /\ IdleImage /\ IdleIndex /\ IdleArgo

SpecSst == InitSst /\ [][SstNext]_vars

=============================================================================
